---- MODULE Spec2Model ----
(***************************************************************************)
(* Terrain ETL pipeline of landos (backend/services/analytics).            *)
(*                                                                         *)
(* The state is the terrain collection (one document per project), the    *)
(* DEM disk cache, the two environment flags read by the land-cover ETL    *)
(* and a fixed number of task slots.  A slot holds one invocation of an    *)
(* entry point (trigger_etl, run_country_etl, run_country_layer) with its  *)
(* position (pc) and its local variables.  One action is one stretch of    *)
(* code between two awaits that touch shared state.  Under Spec the        *)
(* invocations run one after the other, in any order, with any inputs and  *)
(* without end: a new one starts when no other is in flight.  Timestamps   *)
(* (updated_at, fetched_at) are left out.                                  *)
(***************************************************************************)
EXTENDS Integers, Sequences, FiniteSets, TLC

VARIABLES terrain, demCache, env, tasks, refdb, loader, geo,
          region, square, tiffs, legend, fetches, auth, app, grids

vars == <<terrain, demCache, env, tasks, refdb, loader, geo,
          region, square, tiffs, legend, fetches, auth, app, grids>>

\* the ETL pipeline's part of the state
pipeline == <<terrain, demCache, env, tasks>>

\* the reference datasets with their loader, and the geometry validation
reference == <<refdb, loader>>

\* the services around the pipeline: region resolution, the DEM bounding box,
\* the DEM raster processing, the land-cover legend, the DEM fetches, the
\* sessions, the project routes and the grid resampling
services == <<region, square, tiffs, legend, fetches, auth, app, grids>>

\* what each of these services leaves alone
besides_region == <<pipeline, reference, geo, square, tiffs, legend, fetches, auth, app, grids>>

besides_square == <<pipeline, reference, geo, region, tiffs, legend, fetches, auth, app, grids>>

besides_tiffs == <<pipeline, reference, geo, region, square, legend, fetches, auth, app, grids>>

besides_legend == <<pipeline, reference, geo, region, square, tiffs, fetches, auth, app, grids>>

besides_fetches == <<pipeline, reference, geo, region, square, tiffs, legend, auth, app, grids>>

besides_auth == <<pipeline, reference, geo, region, square, tiffs, legend, fetches, app, grids>>

besides_grids == <<pipeline, reference, geo, region, square, tiffs, legend, fetches, auth, app>>

(***************************************************************************)
(* Bounds and input sets                                                   *)
(***************************************************************************)
\* task slots: the invocations that can be in flight at the same time
NumSlots == 2

Slots == 1..NumSlots

Projects == {"p1"}

\* the project ids of the terrain collection: the documents of the project
\* above and of a second one
Tenants == Projects \cup {"p2"}

\* project geometries; each has its own bounding-box cache key
Geometries == {"g1", "g2"}

\* country codes handed to the dispatcher ("" stands for None / empty)
CountryInputs == {"USA", "usa", "MEX", ""}

\* what resolve_region can yield for region.get("country")
RegionResults == {"USA", ""}

LayerInputs == {"soil", "Soil", "land_cover", "landcover", "land-cover", "dem"}

\* the soil provider's answers to the first and the second request
SoilPlans == {<<"ok", "ok">>, <<"fail", "ok">>, <<"fail", "fail">>}

\* the tables ("Table" rows reduced to mukey and wkt) the provider can return
SoilTables ==
    { <<>>,
      <<[mukey |-> "", wkt |-> "P1"], [mukey |-> "m2", wkt |-> "bad"],
        [mukey |-> "m3", wkt |-> ""]>>,
      <<[mukey |-> "m2", wkt |-> "P2"], [mukey |-> "m1", wkt |-> "P1"],
        [mukey |-> " m2", wkt |-> "P1"]>> }

\* the class rasters the land-cover provider can return (native grids)
LcRasters ==
    { [grid |-> <<<<1, 2>>, <<3, 4>>>>, bounds |-> "cdl_a", transform |-> "cdl_a"] }

(***************************************************************************)
(* Documents                                                               *)
(***************************************************************************)
NoStatus == [status |-> "none", error |-> "", note |-> ""]

OkStatus == [status |-> "ok", error |-> "", note |-> ""]

FailedStatus(msg) == [status |-> "failed", error |-> msg, note |-> ""]

NoLayers == [dem |-> NoStatus, soil |-> NoStatus, land_cover |-> NoStatus]

NoElev == [present |-> FALSE, heightmap |-> <<>>, bounds |-> "", transform |-> ""]

NoSoil == [present |-> FALSE, map_units |-> <<>>, units |-> {}, index_map |-> <<>>,
           grid |-> <<>>, bounds |-> "", transform |-> ""]

NoLandCover == [present |-> FALSE, grid |-> <<>>, bounds |-> "", transform |-> ""]

\* find_one(...) or {} : a missing document reads as the empty document
NoDoc == [exists |-> FALSE, elevation_data |-> NoElev, soil_data |-> NoSoil,
          land_cover |-> NoLandCover, etl_layers |-> NoLayers]

(***************************************************************************)
(* Pure helpers                                                            *)
(***************************************************************************)
\* len(grid), len(grid[0]) if rows else 0
GridRows(grid) == Len(grid)

GridCols(grid) == IF Len(grid) = 0 THEN 0 ELSE Len(grid[1])

Max2(a, b) == IF a >= b THEN a ELSE b

\* Python's round() of the non-negative rational num/den: ties go to even
PyRound(num, den) ==
    LET q == num \div den
        r == num % den
    IN  IF 2 * r < den THEN q
        ELSE IF 2 * r > den THEN q + 1
        ELSE IF q % 2 = 0 THEN q ELSE q + 1

\* an index mapping that cuts the fraction off
SrcIndexFloor(i, target, src) == (i * Max2(src - 1, 0)) \div Max2(target - 1, 1)

\* src index for the 0-based target index i
\*   int(round((i / max(target - 1, 1)) * max(src - 1, 0)))
SrcIndex(i, target, src) ==
    PyRound(i * Max2(src - 1, 0), Max2(target - 1, 1))

ResampleNoShapeCheck(grid, target_rows, target_cols) ==
    [r \in 1..target_rows |->
        [c \in 1..target_cols |->
            grid[SrcIndex(r - 1, target_rows, GridRows(grid)) + 1]
                [SrcIndex(c - 1, target_cols, GridCols(grid)) + 1]]]

\* a resampling that hands the grid back whatever its shape
ResampleGridIdentity(grid, target_rows, target_cols) == grid

_resample_grid(grid, target_rows, target_cols) ==
    IF grid = <<>> THEN grid
    ELSE IF GridRows(grid) = target_rows /\ GridCols(grid) = target_cols THEN grid
    ELSE ResampleNoShapeCheck(grid, target_rows, target_cols)

\* (country_code or "").upper()
Upper(code) ==
    CASE code = "usa" -> "USA"
      [] code = "mex" -> "MEX"
      [] OTHER -> code

\* (layer or "").lower()
Lower(layer) ==
    CASE layer = "Soil" -> "soil"
      [] OTHER -> layer

COUNTRY_MODULES == {"USA"}

\* the elevation record _process_tiff builds from the raster of a geometry:
\* the padded and cropped heightmap with its bounds and transform
ProcessedDem(geom) ==
    [present |-> TRUE,
     heightmap |-> IF geom = "g1" THEN <<<<10, 20>>, <<30, 40>>>>
                   ELSE <<<<10, 20>>, <<30, 40>>, <<50, 60>>>>,
     bounds |-> geom,
     transform |-> geom]

(***************************************************************************)
(* Soil ETL: parsing the provider rows and burning them onto the DEM grid  *)
(***************************************************************************)
\* soil.py imports datetime, httpx, shapely, logging, numpy and rasterio,
\* and not asyncio, which fetch_soil_data names in "await asyncio.sleep(1)"
AsyncioImported == FALSE

\* shapely parses these; "" is a missing wkt and "bad" raises in wkt.loads
ValidWkt == {"P1", "P2"}

\* str(row.get("mukey") or "").strip()
Strip(text) ==
    CASE text = " m2" -> "m2"
      [] text = " " -> ""
      [] OTHER -> text

\* the rows the parsing loop keeps: non-empty mukey and a wkt that loads
Usable(row) == row.mukey # "" /\ row.wkt \in ValidWkt

\* the rows of the table with the mukey as the loop reads it, those kept
UsableRows(table) ==
    SelectSeq([i \in 1..Len(table) |-> [mukey |-> Strip(table[i].mukey),
                                        wkt |-> table[i].wkt]], Usable)

\* an id for every row, whatever its mukey
OneIdPerRow(rows) == [i \in 1..Len(rows) |-> rows[i].mukey]

RECURSIVE FirstAppearance(_)
\* mukey_to_id.setdefault(mukey, len(mukey_to_id) + 1): the distinct mukeys
\* in order of first appearance; the id of a mukey is its position
FirstAppearance(rows) ==
    IF rows = <<>> THEN <<>>
    ELSE LET before == FirstAppearance(SubSeq(rows, 1, Len(rows) - 1))
             mukey == rows[Len(rows)].mukey
         IN  IF \E i \in 1..Len(before) : before[i] = mukey THEN before
             ELSE Append(before, mukey)

IdOf(mukey, index_map) == CHOOSE i \in 1..Len(index_map) : index_map[i] = mukey

\* the cells of the DEM grid a polygon covers (its footprint on the grid)
Covers(poly, r, c) ==
    CASE poly = "P1" -> c = 1
      [] poly = "P2" -> r = 1
      [] OTHER -> FALSE

SetMax(S) == CHOOSE x \in S : \A y \in S : y <= x

\* rasterio.features.rasterize(shapes, out_shape=(rows, cols), fill=0):
\* a later shape burns over an earlier one
rasterize(shapes, rows, cols) ==
    LET index_map == FirstAppearance(shapes)
    IN  [r \in 1..rows |->
            [c \in 1..cols |->
                LET hit == {i \in 1..Len(shapes) : Covers(shapes[i].wkt, r, c)}
                IN  IF hit = {} THEN 0
                    ELSE IdOf(shapes[SetMax(hit)].mukey, index_map)]]

\* soil_doc as fetch_soil_data builds it; soil_grid is <<>> for None
SoilDoc(table, elev, soil_grid) ==
    [present |-> TRUE,
     map_units |-> table,
     units |-> {UsableRows(table)[i].mukey : i \in 1..Len(UsableRows(table))},
     index_map |-> FirstAppearance(UsableRows(table)),
     grid |-> soil_grid,
     bounds |-> elev.bounds,
     transform |-> elev.transform]

\* a rasterization block without the "if not shapes" branch
SoilOutcomeIgnoringEmpty(table, elev, raster_raises) ==
    IF raster_raises
    THEN [grid |-> <<>>, etl_status |-> FailedStatus("rasterize failed")]
    ELSE [grid |-> rasterize(UsableRows(table), GridRows(elev.heightmap),
                             GridCols(elev.heightmap)),
          etl_status |-> OkStatus]

\* the grid and the status the rasterization block leaves
SoilOutcome(table, elev, raster_raises) ==
    LET shapes == UsableRows(table)
        rows == GridRows(elev.heightmap)
        cols == GridCols(elev.heightmap)
    IN  IF shapes = <<>>
        THEN [grid |-> <<>>, etl_status |-> FailedStatus("no soil polygons")]
        ELSE IF raster_raises
        THEN [grid |-> <<>>, etl_status |-> FailedStatus("rasterize failed")]
        ELSE [grid |-> rasterize(shapes, rows, cols), etl_status |-> OkStatus]

(***************************************************************************)
(* Land-cover ETL helpers                                                  *)
(***************************************************************************)
NoFallback == [present |-> FALSE, grid |-> <<>>, bounds |-> "", transform |-> ""]

_fallback_from_soil(doc) ==
    IF doc.soil_data.grid = <<>> THEN NoFallback
    ELSE [present |-> TRUE, grid |-> doc.soil_data.grid,
          bounds |-> doc.soil_data.bounds, transform |-> doc.soil_data.transform]

\* os.getenv("LAND_COVER_REMOTE_ONLY") != "1"
AllowFallbackFirst == ~env.remote_only

\* a fallback decision that looks at neither the flag nor the status
FallbackAlways(previous_status, allow_fallback_first) == TRUE

\* fallback_allowed = previous_status == "failed" or allow_fallback_first
FallbackAllowed(previous_status, allow_fallback_first) ==
    previous_status = "failed" \/ allow_fallback_first

\* the grid stored in its native shape
AlignedGridNoResample(grid, rows, cols) == grid

\* grid = raster.get("grid") or []; resampled to the DEM shape when it differs
AlignedGrid(grid, rows, cols) ==
    IF grid # <<>> /\ rows # 0 /\ cols # 0
       /\ (GridRows(grid) # rows \/ GridCols(grid) # cols)
    THEN _resample_grid(grid, rows, cols)
    ELSE grid

\* land_cover_doc: the grid with the DEM's bounds/transform when the DEM has them
LandCoverDoc(snap, raster) ==
    LET heightmap == snap.elevation_data.heightmap
    IN  [present |-> TRUE,
         grid |-> AlignedGrid(raster.grid, GridRows(heightmap), GridCols(heightmap)),
         bounds |-> IF snap.elevation_data.bounds # "" THEN snap.elevation_data.bounds
                    ELSE raster.bounds,
         transform |-> IF snap.elevation_data.transform # ""
                       THEN snap.elevation_data.transform
                       ELSE raster.transform]

FallbackStatus == [status |-> "ok", error |-> "", note |-> "fallback_soil"]

(***************************************************************************)
(* Reference datasets: countries, subdivisions, land-cover keys            *)
(***************************************************************************)
\* the dataset names; each loader fills its own collection (regions,
\* subdivisions, land_cover_keys)
DatasetNames == {"countries", "subdivisions_USA", "land_cover_keys"}

\* records a source file can hold
MaxRecords == 1

\* the values datetime.utcnow() can take
MaxTime == 1

Times == 0..MaxTime

\* timedelta(days=365) in build_dataset_metadata
ExpiryDays == 365

\* the interval_days the loaders hand to build_refresh_job
RefreshIntervalDays == 365

NoFile == [exists |-> FALSE, records |-> 0]

NoDataset == [exists |-> FALSE, downloaded_at |-> 0, expires_at |-> 0]

NoRefreshJob == [exists |-> FALSE, next_run_at |-> 0, interval_days |-> 0]

\* empty collections, nothing downloaded, no metadata
EmptyRefdb ==
    [count |-> [n \in DatasetNames |-> 0],
     file |-> [n \in DatasetNames |-> NoFile],
     datasets |-> [n \in DatasetNames |-> NoDataset],
     refresh_jobs |-> [n \in DatasetNames |-> NoRefreshJob]]

\* dataset metadata that expires the moment it is downloaded
BuildDatasetMetadataNoExpiry(name, downloaded_at) ==
    [exists |-> TRUE, downloaded_at |-> downloaded_at, expires_at |-> downloaded_at]

build_dataset_metadata(name, downloaded_at) ==
    [exists |-> TRUE, downloaded_at |-> downloaded_at,
     expires_at |-> downloaded_at + ExpiryDays]

\* build_refresh_job(name, interval_days); now is the utcnow() it reads
build_refresh_job(name, interval_days, now) ==
    [exists |-> TRUE, next_run_at |-> now + interval_days,
     interval_days |-> interval_days]

\* one loader invocation: existing is the count it found, downloads and
\* inserts count its requests to the source and its insert calls
IdleLoader ==
    [name |-> "", pc |-> "idle", existing |-> 0, docs |-> 0, downloads |-> 0,
     inserts |-> 0, exc |-> ""]

\* a guard that never finds the collection loaded
AlreadyLoadedNever(existing) == FALSE

\* if count > 0: return
AlreadyLoaded(existing) == existing > 0

\* count_documents({}) and the early return
CallLoader(name) ==
    /\ loader.pc = "idle"
    /\ LET existing == refdb.count[name]
           t == [IdleLoader EXCEPT !.name = name, !.existing = existing]
       IN  loader' = IF AlreadyLoaded(existing) THEN [t EXCEPT !.pc = "returned"]
                     ELSE [t EXCEPT !.pc = "download"]
    /\ UNCHANGED <<refdb, pipeline, geo, services>>

\* _download_if_missing / _download_land_cover_keys and the parsing of the
\* file: a file on disk is used as it is, otherwise the source is asked and
\* its answer kept on disk, unless the request fails
LoaderDownload ==
    LET name == loader.name
        file == refdb.file[name]
    IN  /\ loader.pc = "download"
        /\ \/ /\ file.exists
              /\ loader' = [loader EXCEPT !.pc = "insert", !.docs = file.records]
              /\ UNCHANGED refdb
           \/ /\ ~file.exists
              /\ \E n \in 0..MaxRecords :
                    /\ refdb' = [refdb EXCEPT !.file[name] =
                                    [exists |-> TRUE, records |-> n]]
                    /\ loader' = [loader EXCEPT !.pc = "insert", !.docs = n,
                                                !.downloads = @ + 1]
           \/ /\ ~file.exists
              /\ loader' = [loader EXCEPT !.pc = "raised", !.exc = "download failed",
                                          !.downloads = @ + 1]
              /\ UNCHANGED refdb
        /\ UNCHANGED <<pipeline, geo, services>>

\* insert_many: _ensure_countries calls it whatever docs holds (an empty
\* list is a TypeError) and, like _ensure_subdivisions, goes on after a
\* BulkWriteError with the documents that could be inserted;
\* load_land_cover_keys lets the BulkWriteError out
LoaderInsert ==
    LET name == loader.name
        docs == loader.docs
    IN  /\ loader.pc = "insert"
        /\ \/ /\ docs = 0
              /\ loader' = IF name = "countries"
                           THEN [loader EXCEPT !.pc = "raised", !.inserts = @ + 1,
                                    !.exc = "documents must be a non-empty list"]
                           ELSE [loader EXCEPT !.pc = "datasets"]
              /\ UNCHANGED refdb
           \/ /\ docs > 0
              /\ refdb' = [refdb EXCEPT !.count[name] = @ + docs]
              /\ loader' = [loader EXCEPT !.pc = "datasets", !.inserts = @ + 1]
           \/ /\ docs > 0
              /\ \E k \in 0..(docs - 1) :
                    refdb' = [refdb EXCEPT !.count[name] = @ + k]
              /\ loader' = IF name = "land_cover_keys"
                           THEN [loader EXCEPT !.pc = "raised", !.inserts = @ + 1,
                                               !.exc = "bulk write error"]
                           ELSE [loader EXCEPT !.pc = "datasets", !.inserts = @ + 1]
        /\ UNCHANGED <<pipeline, geo, services>>

\* db.datasets.update_one(..., upsert=True); the update can fail
LoaderDatasets ==
    /\ loader.pc = "datasets"
    /\ \/ \E now \in Times :
             /\ refdb' = [refdb EXCEPT !.datasets[loader.name] =
                             build_dataset_metadata(loader.name, now)]
             /\ loader' = [loader EXCEPT !.pc = "refresh_jobs"]
       \/ /\ loader' = [loader EXCEPT !.pc = "raised",
                                      !.exc = "datasets update failed"]
          /\ UNCHANGED refdb
    /\ UNCHANGED <<pipeline, geo, services>>

\* db.refresh_jobs.update_one(..., upsert=True), then return; the update
\* can fail
LoaderRefreshJobs ==
    /\ loader.pc = "refresh_jobs"
    /\ \/ \E now \in Times :
             /\ refdb' = [refdb EXCEPT !.refresh_jobs[loader.name] =
                             build_refresh_job(loader.name, RefreshIntervalDays, now)]
             /\ loader' = [loader EXCEPT !.pc = "returned"]
       \/ /\ loader' = [loader EXCEPT !.pc = "raised",
                                      !.exc = "refresh_jobs update failed"]
          /\ UNCHANGED refdb
    /\ UNCHANGED <<pipeline, geo, services>>

\* the caller has seen the loader end
LoaderReap ==
    /\ loader.pc \in {"returned", "raised"}
    /\ loader' = IdleLoader
    /\ UNCHANGED <<refdb, pipeline, geo, services>>

(***************************************************************************)
(* Geometry validation                                                     *)
(***************************************************************************)
\* a GeoJSON value: dict is FALSE for a value that is no dict, type "" is a
\* missing type, coordinates are missing, an empty list or a ring, geometry
\* and features are <<>> when the key is missing or its value empty
Obj(type, coordinates, geometry, features) ==
    [dict |-> TRUE, type |-> type, coordinates |-> coordinates,
     geometry |-> geometry, features |-> features]

NotADict ==
    [dict |-> FALSE, type |-> "", coordinates |-> "missing", geometry |-> <<>>,
     features |-> <<>>]

EmptyDict == Obj("", "missing", <<>>, <<>>)

FeatureOf(g) == Obj("Feature", "missing", <<g>>, <<>>)

CollectionOf(fs) == Obj("FeatureCollection", "missing", <<>>, fs)

BareGeometries ==
    { Obj(t, c, <<>>, <<>>) : t \in {"Polygon", "MultiPolygon", "Point", "LineString", ""},
                              c \in {"missing", "empty", "ring"} }

Features ==
    {Obj("Feature", "missing", <<>>, <<>>)}
       \cup { FeatureOf(g) : g \in BareGeometries \cup {NotADict} }

\* features whose geometry is again a feature
NestedFeatures ==
    { FeatureOf(FeatureOf(Obj("Polygon", c, <<>>, <<>>))) : c \in {"empty", "ring"} }

Collections ==
    {CollectionOf(<<>>)}
       \cup { CollectionOf(<<f>>) :
                 f \in Features \cup NestedFeatures \cup {NotADict}
                          \cup {Obj("Polygon", "ring", <<>>, <<>>)} }
       \cup { CollectionOf(<<FeatureOf(first), FeatureOf(Obj(u, "ring", <<>>, <<>>))>>) :
                 first \in BareGeometries, u \in {"Polygon", "MultiPolygon", "Point"} }

\* the values handed to validate_geometry
GeoInputs ==
    {NotADict} \cup BareGeometries \cup Features \cup NestedFeatures \cup Collections

Returned(g) == [raised |-> "", value |-> g]

Rejected(msg) == [raised |-> msg, value |-> EmptyDict]

NoResult == [raised |-> "none", value |-> EmptyDict]

\* x.get("geometry") or {}
GetGeometry(obj) == IF obj.geometry = <<>> THEN EmptyDict ELSE obj.geometry[1]

\* a check of the type alone
CheckBareNoCoordinates(g) ==
    IF ~g.dict THEN Rejected("AttributeError")
    ELSE IF g.type \notin {"Polygon", "MultiPolygon"}
    THEN Rejected("geometry must be Polygon or MultiPolygon")
    ELSE Returned(g)

\* the checks of type and coordinates; .get on a value that is no dict is an
\* AttributeError
CheckBare(g) ==
    IF ~g.dict THEN Rejected("AttributeError")
    ELSE IF g.type \notin {"Polygon", "MultiPolygon"}
    THEN Rejected("geometry must be Polygon or MultiPolygon")
    ELSE IF g.coordinates # "ring"
    THEN Rejected("geometry coordinates are required")
    ELSE Returned(g)

\* if gtype == "Feature": geometry = geometry.get("geometry") or {}
UnwrapFeature(g) ==
    IF ~g.dict THEN Rejected("AttributeError")
    ELSE IF g.type = "Feature" THEN CheckBare(GetGeometry(g))
    ELSE CheckBare(g)

validate_geometry(geometry) ==
    IF ~geometry.dict THEN Rejected("geometry must be a GeoJSON object")
    ELSE IF geometry.type = "FeatureCollection"
    THEN IF geometry.features = <<>>
         THEN Rejected("geometry FeatureCollection is empty")
         ELSE IF ~geometry.features[1].dict THEN Rejected("AttributeError")
         ELSE UnwrapFeature(GetGeometry(geometry.features[1]))
    ELSE UnwrapFeature(geometry)

\* one use of validate_geometry: the input, its result, and the result of
\* validating that result again
GeoIdle == [pc |-> "idle", input |-> EmptyDict, result |-> NoResult, again |-> NoResult]

CallValidateGeometry(g) ==
    /\ geo.pc = "idle"
    /\ geo' = [pc |-> "validated", input |-> g, result |-> validate_geometry(g),
               again |-> NoResult]
    /\ UNCHANGED <<pipeline, reference, services>>

\* calculate_area_hectares and the callers downstream validate again what
\* validate_geometry returned
Revalidate ==
    /\ geo.pc = "validated"
    /\ geo.result.raised = ""
    /\ geo' = [geo EXCEPT !.pc = "revalidated",
                          !.again = validate_geometry(geo.result.value)]
    /\ UNCHANGED <<pipeline, reference, services>>

GeoDone ==
    /\ geo.pc \in {"validated", "revalidated"}
    /\ geo' = GeoIdle
    /\ UNCHANGED <<pipeline, reference, services>>

(***************************************************************************)
(* Region resolution                                                       *)
(***************************************************************************)
\* a document of the regions or subdivisions collection as the projection
\* {"code": 1, "name": 1} returns it
RegionDoc(code, name) == [found |-> TRUE, code |-> code, name |-> name]

\* find_one found nothing
NoRegionDoc == [found |-> FALSE, code |-> "", name |-> ""]

\* what the regions collection holds for a geometry: the country whose
\* polygon intersects it, or nothing
RegionsContents == {NoRegionDoc, RegionDoc("USA", "United States")}

SubdivisionsContents == {NoRegionDoc, RegionDoc("US-CA", "California")}

\* None is "" in the result
NoRegionResult ==
    [country |-> "", country_name |-> "", subdivision |-> "", subdivision_name |-> ""]

\* result = {"country": country.get("code") if country else None, ...}
RegionResult(country, subdivision) ==
    [country |-> IF country.found THEN country.code ELSE "",
     country_name |-> IF country.found THEN country.name ELSE "",
     subdivision |-> IF subdivision.found THEN subdivision.code ELSE "",
     subdivision_name |-> IF subdivision.found THEN subdivision.name ELSE ""]

\* one call of resolve_region: the two collections as they are for the
\* geometry, the call's position, its locals, and its result or exception
RegionIdle ==
    [pc |-> "idle", geometry |-> EmptyDict, regions |-> NoRegionDoc,
     subdivisions |-> NoRegionDoc, country |-> NoRegionDoc,
     result |-> NoRegionResult, exc |-> ""]

\* geometry = validate_geometry(geometry), up to the first find_one
CallResolveRegion(g, regions, subdivisions) ==
    /\ region.pc = "idle"
    /\ LET validated == validate_geometry(g)
       IN  region' =
              IF validated.raised # ""
              THEN [RegionIdle EXCEPT !.pc = "raised", !.exc = validated.raised,
                                      !.regions = regions,
                                      !.subdivisions = subdivisions]
              ELSE [RegionIdle EXCEPT !.pc = "country",
                                      !.geometry = validated.value,
                                      !.regions = regions,
                                      !.subdivisions = subdivisions]
    /\ UNCHANGED besides_region

\* country = await db.regions.find_one(...): the document, None, or the
\* driver's exception, which nothing in resolve_region catches
RegionCountry ==
    /\ region.pc = "country"
    /\ \/ region' = [region EXCEPT !.pc = "subdivision", !.country = region.regions]
       \/ region' = [region EXCEPT !.pc = "raised", !.exc = "regions lookup failed"]
    /\ UNCHANGED besides_region

\* subdivision = await db.subdivisions.find_one(...), then the result
RegionSubdivision ==
    /\ region.pc = "subdivision"
    /\ \/ region' = [region EXCEPT !.pc = "returned",
                                   !.result = RegionResult(region.country,
                                                           region.subdivisions)]
       \/ region' = [region EXCEPT !.pc = "raised",
                                   !.exc = "subdivisions lookup failed"]
    /\ UNCHANGED besides_region

\* the caller has seen the result or the exception
RegionReap ==
    /\ region.pc \in {"returned", "raised"}
    /\ region' = RegionIdle
    /\ UNCHANGED besides_region

(***************************************************************************)
(* The DEM bounding box (_square_bbox)                                     *)
(***************************************************************************)
\* Python floats are binary floating point numbers rounded to nearest, ties
\* to even, after every operation.  The model keeps that arithmetic with a
\* short mantissa: a number is an integer count of a fixed small unit, and a
\* float is a number with at most MantissaBits significant bits.
MantissaBits == 3

Abs(x) == IF x < 0 THEN 0 - x ELSE x

RECURSIVE BitLength(_)
BitLength(n) == IF n = 0 THEN 0 ELSE 1 + BitLength(n \div 2)

\* the float nearest to the real number x, ties to the even mantissa
Float(x) ==
    LET a == Abs(x)
        unit == 2 ^ Max2(0, BitLength(a) - MantissaBits)
        q == a \div unit
        r == a % unit
        m == IF 2 * r > unit \/ (2 * r = unit /\ q % 2 = 1) THEN q + 1 ELSE q
    IN  IF x < 0 THEN 0 - (m * unit) ELSE m * unit

\* coordinates that are floats, all multiples of four units so that the two
\* halvings below are exact, as a division by two is in binary floats
Coordinates == {x \in {0 - 8, 0, 4, 12, 20, 28, 40} : Float(x) = x}

\* geom_shape.bounds of a polygon: (minx, miny, maxx, maxy)
BoundsInputs ==
    { b \in Coordinates \X Coordinates \X Coordinates \X Coordinates :
         b[1] < b[3] /\ b[2] < b[4] }

\* buffer_ratio in halves (0, 0.5, 1), so that 1 + buffer_ratio is exact
RatioHalves == {0, 1, 2}

MinBuffers == {0, 4}

\* span * (1 + buffer_ratio)
TimesOnePlusRatio(span, halves) == Float((span * (2 + halves)) \div 2)

\* cx - half, cy - half, cx + half, cy + half, every operation rounded
_square_bbox(bounds, halves, min_buffer_deg) ==
    LET minx == bounds[1]
        miny == bounds[2]
        maxx == bounds[3]
        maxy == bounds[4]
        cx == Float(minx + maxx) \div 2
        cy == Float(miny + maxy) \div 2
        span == Max2(Float(maxx - minx), Float(maxy - miny))
        buffered_span == Max2(Max2(TimesOnePlusRatio(span, halves),
                                   Float(span + min_buffer_deg)),
                              min_buffer_deg)
        half == buffered_span \div 2
    IN  <<Float(cx - half), Float(cy - half), Float(cx + half), Float(cy + half)>>

SquareIdle ==
    [pc |-> "idle", bounds |-> <<0, 0, 0, 0>>, halves |-> 0, min_buffer_deg |-> 0,
     box |-> <<0, 0, 0, 0>>]

CallSquareBbox(bounds, halves, min_buffer_deg) ==
    /\ square.pc = "idle"
    /\ square' = [pc |-> "returned", bounds |-> bounds, halves |-> halves,
                  min_buffer_deg |-> min_buffer_deg,
                  box |-> _square_bbox(bounds, halves, min_buffer_deg)]
    /\ UNCHANGED besides_square

SquareReap ==
    /\ square.pc = "returned"
    /\ square' = SquareIdle
    /\ UNCHANGED besides_square

(***************************************************************************)
(* The DEM raster processing (_process_tiff)                               *)
(***************************************************************************)
\* the longest side of an input raster
MaxDim == 3

\* the value a raster declares as nodata, when it declares one
NoDataValue == 0 - 1

\* band 1 of a raster of the given shape: every cell holds its own value,
\* and the first cell holds the nodata value when hole is TRUE
Band(height, width, hole) ==
    [r \in 1..height |->
        [c \in 1..width |-> IF hole /\ r = 1 /\ c = 1 THEN NoDataValue
                            ELSE 10 * r + c]]

\* dataset.transform of a north-up raster, (a, b, c, d, e, f): the cell
\* (col, row) has its corner at x = a*col + b*row + c, y = d*col + e*row + f.
\* Coordinates are whole numbers of a fixed unit.
Transforms == { <<1, 0, 0, 0, 0 - 1, 0>>, <<2, 0, 3, 0, 0 - 2, 5>> }

\* the rasters handed to _process_tiff; nodata is "none" for dataset.nodata
\* is None
RasterInputs ==
    { t \in { [band |-> Band(h, w, hole), nodata |-> nd, transform |-> tr] :
                 h \in 1..MaxDim, w \in 1..MaxDim, hole \in BOOLEAN,
                 nd \in {"none", "declared"}, tr \in Transforms } :
         t.nodata = "declared" => t.band[1][1] = NoDataValue }

\* geom_bounds is None
NoBounds == <<>>

\* shape(geom).bounds, (minx, miny, maxx, maxy): inside the rasters, across
\* their edges and wholly outside them
GeomBounds ==
    { b \in {0 - 9, 0 - 3, 0, 3, 12} \X {0 - 12, 0 - 1, 0, 3, 9}
              \X {0 - 9, 0 - 3, 0, 3, 12} \X {0 - 12, 0 - 1, 0, 3, 9} :
         b[1] <= b[3] /\ b[2] <= b[4] }

\* np.where(elevation_array == nodata, 0, elevation_array)
ZeroNoData(band, nodata) ==
    IF nodata = "none" THEN band
    ELSE [r \in 1..GridRows(band) |->
             [c \in 1..GridCols(band) |->
                 IF band[r][c] = NoDataValue THEN 0 ELSE band[r][c]]]

\* a raster left in its own shape
PadToSquareNever(elevation_array) == elevation_array

\* if height != width: the array is centred in a target x target array of
\* zeros, at row offset (target - height) // 2 and column offset
\* (target - width) // 2
PadToSquare(elevation_array) ==
    LET height == GridRows(elevation_array)
        width == GridCols(elevation_array)
        target == Max2(height, width)
        r0 == (target - height) \div 2
        c0 == (target - width) \div 2
    IN  IF height = width THEN elevation_array
        ELSE [r \in 1..target |->
                 [c \in 1..target |->
                     IF r - r0 \in 1..height /\ c - c0 \in 1..width
                     THEN elevation_array[r - r0][c - c0]
                     ELSE 0]]

\* the cells of a grid
Cells(grid) == {grid[r][c] : r \in 1..GridRows(grid), c \in 1..GridCols(grid)}

SetMin(S) == CHOOSE x \in S : \A y \in S : x <= y

\* Affine * (col, row)
Apply(transform, col, row) ==
    <<transform[1] * col + transform[2] * row + transform[3],
      transform[4] * col + transform[5] * row + transform[6]>>

\* a composition that leaves the transform as it was
ShiftTransformNone(transform, xoff, yoff) == transform

\* transform * Affine.translation(xoff, yoff)
ShiftTransform(transform, xoff, yoff) ==
    <<transform[1], transform[2], Apply(transform, xoff, yoff)[1],
      transform[4], transform[5], Apply(transform, xoff, yoff)[2]>>

\* rasterio.transform.array_bounds(height, width, transform) of a north-up
\* transform: west = c, south = f + e*height, east = c + a*width, north = f
array_bounds(height, width, transform) ==
    [left |-> transform[3], bottom |-> transform[6] + transform[5] * height,
     right |-> transform[3] + transform[1] * width, top |-> transform[6]]

\* the transform after the padding: shifted by the offsets of the original
\* array in the padded one, when the raster is not square
PadTransform(elevation_array, transform) ==
    LET height == GridRows(elevation_array)
        width == GridCols(elevation_array)
        target == Max2(height, width)
    IN  IF height = width THEN transform
        ELSE ShiftTransform(transform, 0 - ((target - width) \div 2),
                            0 - ((target - height) \div 2))

\* lines 85-113: the elevation record before the crop.  The bounds are the
\* dataset's for a square raster and those of the padded array otherwise.
Padded(tiff) ==
    LET elevation_array == PadToSquare(ZeroNoData(tiff.band, tiff.nodata))
        transform == PadTransform(tiff.band, tiff.transform)
    IN  [heightmap |-> elevation_array,
         min_elevation |-> SetMin(Cells(elevation_array)),
         max_elevation |-> SetMax(Cells(elevation_array)),
         bounds |-> array_bounds(GridRows(elevation_array),
                                 GridCols(elevation_array), transform),
         transform |-> transform]

Min2(a, b) == IF a <= b THEN a ELSE b

\* math.floor and math.ceil of the quotient num / den, den # 0
Floor(num, den) == IF den > 0 THEN num \div den ELSE (0 - num) \div (0 - den)

Ceil(num, den) == 0 - Floor(0 - num, den)

\* the bounds of the slice array[start:stop] of numpy over a length: a
\* negative index counts from the end, and both are clipped to the length
SliceIndex(i, length) ==
    IF i < 0 THEN Max2(i + length, 0) ELSE Min2(i, length)

\* elevation_array[r_min:r_max, c_min:c_max]
Slice(array, r_min, r_max, c_min, c_max) ==
    LET r_lo == SliceIndex(r_min, GridRows(array))
        r_hi == SliceIndex(r_max, GridRows(array))
        c_lo == SliceIndex(c_min, GridCols(array))
        c_hi == SliceIndex(c_max, GridCols(array))
    IN  [r \in 1..(r_hi - r_lo) |-> [c \in 1..(c_hi - c_lo) |-> array[r_lo + r][c_lo + c]]]

\* arr.shape: numpy keeps the number of columns of an array without rows
SliceShape(array, r_min, r_max, c_min, c_max) ==
    <<Max2(SliceIndex(r_max, GridRows(array)) - SliceIndex(r_min, GridRows(array)), 0),
      Max2(SliceIndex(c_max, GridCols(array)) - SliceIndex(c_min, GridCols(array)), 0)>>

\* lines 117-134: the crop window (r_min, r_max, c_min, c_max) of the bounds
\* widened by two cells, projected with the inverse transform (col =
\* (x - c) / a, row = (y - f) / e for a north-up transform)
CropWindow(transform, heightmap, geom_bounds) ==
    LET cell_w == Abs(transform[1])
        cell_h == Abs(transform[5])
        target == [left |-> geom_bounds[1] - 2 * cell_w,
                   right |-> geom_bounds[3] + 2 * cell_w,
                   bottom |-> geom_bounds[2] - 2 * cell_h,
                   top |-> geom_bounds[4] + 2 * cell_h]
        a == transform[1]
        e == transform[5]
        \* numerators of c0, c1 over a and of r0, r1 over e
        c0 == target.left - transform[3]
        c1 == target.right - transform[3]
        r0 == target.top - transform[6]
        r1 == target.bottom - transform[6]
        c_lo == IF (a > 0) = (c0 <= c1) THEN c0 ELSE c1
        c_hi == IF (a > 0) = (c0 <= c1) THEN c1 ELSE c0
        r_lo == IF (e > 0) = (r0 <= r1) THEN r0 ELSE r1
        r_hi == IF (e > 0) = (r0 <= r1) THEN r1 ELSE r0
    IN  [c_min |-> Max2(0, Floor(c_lo, a)),
         c_max |-> Min2(Ceil(c_hi, a), GridCols(heightmap)),
         r_min |-> Max2(0, Floor(r_lo, e)),
         r_max |-> Min2(Ceil(r_hi, e), GridRows(heightmap))]

\* lines 115-145: heightmap, transform and bounds are assigned one after the
\* other, then np.min raises ValueError on an array without cells; the except
\* branch logs it and keeps what has been assigned so far
Crop(padded, geom_bounds) ==
    LET w == CropWindow(padded.transform, padded.heightmap, geom_bounds)
        arr == Slice(padded.heightmap, w.r_min, w.r_max, w.c_min, w.c_max)
        shape == SliceShape(padded.heightmap, w.r_min, w.r_max, w.c_min, w.c_max)
        transform == ShiftTransform(padded.transform, w.c_min, w.r_min)
        raises == shape[1] = 0 \/ shape[2] = 0
    IN  [heightmap |-> arr,
         min_elevation |-> IF raises THEN padded.min_elevation ELSE SetMin(Cells(arr)),
         max_elevation |-> IF raises THEN padded.max_elevation ELSE SetMax(Cells(arr)),
         bounds |-> array_bounds(shape[1], shape[2], transform),
         transform |-> transform]

\* _process_tiff(tiff_bytes, geom_bounds): the crop is skipped when
\* geom_bounds is None
_process_tiff(tiff, geom_bounds) ==
    IF geom_bounds = NoBounds THEN Padded(tiff)
    ELSE Crop(Padded(tiff), geom_bounds)

\* the geom_bounds a raster is processed with: none, and every bounds for
\* the rasters without a nodata cell
CropInputs(tiff) ==
    {NoBounds} \cup (IF tiff.band[1][1] # NoDataValue THEN GeomBounds ELSE {})

NoElevation ==
    [heightmap |-> <<>>, min_elevation |-> 0, max_elevation |-> 0,
     bounds |-> [left |-> 0, bottom |-> 0, right |-> 0, top |-> 0],
     transform |-> <<>>]

RasterIdle ==
    [pc |-> "idle", tiff |-> [band |-> <<>>, nodata |-> "none", transform |-> <<>>],
     geom_bounds |-> NoBounds, out |-> NoElevation]

CallProcessTiff(tiff, geom_bounds) ==
    /\ tiffs.pc = "idle"
    /\ tiffs' = [pc |-> "returned", tiff |-> tiff, geom_bounds |-> geom_bounds,
                 out |-> _process_tiff(tiff, geom_bounds)]
    /\ UNCHANGED besides_tiffs

RasterReap ==
    /\ tiffs.pc = "returned"
    /\ tiffs' = RasterIdle
    /\ UNCHANGED besides_tiffs

(***************************************************************************)
(* The land-cover legend (index_map and units of the land_cover document)  *)
(***************************************************************************)
\* None in a grid
NoCell == 0 - 1

\* class codes that occur in grids
ClassCodes == {0, 1, 2}

\* str(v) of an int
Digits(v) ==
    CASE v = 0 -> "0"
      [] v = 1 -> "1"
      [] v = 2 -> "2"
      [] OTHER -> "other"

\* the code of a land_cover_keys document: the loader stores an int when
\* int(code_raw) succeeds and the raw string otherwise
IntCode(v) == [int |-> TRUE, value |-> v, text |-> ""]

RawCode(text) == [int |-> FALSE, value |-> 0, text |-> text]

KeyDoc(code, name) == [code |-> code, name |-> name]

\* str(doc.get("code"))
StrOfCode(code) == IF code.int THEN Digits(code.value) ELSE code.text

KeyDocs ==
    {KeyDoc(IntCode(1), "Corn"), KeyDoc(IntCode(1), "Maize"),
     KeyDoc(IntCode(2), "Cotton"), KeyDoc(RawCode("2"), "Rice"),
     KeyDoc(RawCode("n/a"), "Unknown")}

\* the key tables _load_key_docs returns: up to two documents, in order
KeyTables ==
    {<<>>} \cup { <<d>> : d \in KeyDocs } \cup { <<d, e>> : d \in KeyDocs, e \in KeyDocs }

\* the stored grids: one row of two cells, or two rows of one
LegendGrids ==
    { <<<<a, b>>>> : a \in ClassCodes \cup {NoCell}, b \in ClassCodes \cup {NoCell} }
       \cup { <<<<a>>, <<b>>>> : a \in ClassCodes, b \in {1, NoCell} }

RECURSIVE KeyLookup(_)
\* key_lookup = {str(doc.get("code")): doc.get("name") for doc in key_docs}:
\* a later document replaces an earlier one with the same key
KeyLookup(key_docs) ==
    IF key_docs = <<>> THEN <<>>
    ELSE LET before == KeyLookup(SubSeq(key_docs, 1, Len(key_docs) - 1))
             doc == key_docs[Len(key_docs)]
             key == StrOfCode(doc.code)
         IN  [k \in DOMAIN before \cup {key} |->
                 IF k = key THEN doc.name ELSE before[k]]

\* codes = {str(v) for row in grid for v in row if v is not None}
CodesOf(grid) == {Digits(v) : v \in Cells(grid) \ {NoCell}}

\* key_lookup.get(code): None ("") for a code the table does not hold
NameOrNone(key_lookup, code) ==
    IF code \in DOMAIN key_lookup THEN key_lookup[code] ELSE ""

\* key_lookup.get(code, code)
NameOrCode(key_lookup, code) ==
    IF code \in DOMAIN key_lookup THEN key_lookup[code] ELSE code

\* index_map = {code: key_lookup.get(code, code) for code in codes}
IndexMap(grid, key_docs) ==
    [code \in CodesOf(grid) |-> NameOrCode(KeyLookup(key_docs), code)]

\* units = {code: {"name": index_map[code]} for code in index_map}
Units(index_map) == [code \in DOMAIN index_map |-> [name |-> index_map[code]]]

LegendIdle ==
    [pc |-> "idle", grid |-> <<>>, key_docs |-> <<>>, index_map |-> <<>>,
     units |-> <<>>]

\* lines 271-275 of fetch_land_cover_data on the grid it is about to store
CallBuildLegend(grid, key_docs) ==
    /\ legend.pc = "idle"
    /\ legend' = [pc |-> "built", grid |-> grid, key_docs |-> key_docs,
                  index_map |-> IndexMap(grid, key_docs),
                  units |-> Units(IndexMap(grid, key_docs))]
    /\ UNCHANGED besides_legend

LegendReap ==
    /\ legend.pc = "built"
    /\ legend' = LegendIdle
    /\ UNCHANGED besides_legend

(***************************************************************************)
(* Concurrent DEM fetches (_fetch_tiff)                                    *)
(***************************************************************************)
\* coroutines that run _fetch_tiff at the same time
NumFetchers == 2

Fetchers == 1..NumFetchers

\* bbox_key of the square box of a geometry
BboxKeys == {"k1", "k2"}

FetchProjects == {"p1", "p2"}

\* the bodies the provider answers with, each a complete GeoTIFF
ProviderBytes == {"tiff_a", "tiff_b"}

\* a file name that depends on the project
CachePathPerProject(project_id, bbox_key) == [prefix |-> project_id, key |-> bbox_key]

\* cache_path = CACHE_DIR / f"dem_{bbox_key}"
CachePath(project_id, bbox_key) == [prefix |-> "dem", key |-> bbox_key]

\* CACHE_DIR.glob(f"*_{bbox_key}"): the files whose name ends with the key
Glob(files, bbox_key) == {f \in files : f.name.key = bbox_key}

\* cache_path.write_bytes(content): the file of that name is replaced
WriteBytes(files, name, content) ==
    {f \in files : f.name # name} \cup {[name |-> name, content |-> content]}

IdleFetcher ==
    [pc |-> "idle", project_id |-> "", bbox_key |-> "", result |-> "",
     from |-> "", calls |-> 0]

\* the cache directory and the coroutines
FetchesIdle == [files |-> {}, fetcher |-> [w \in Fetchers |-> IdleFetcher]]

\* _fetch_tiff up to "await client.get": a cache entry is read and returned
\* (read_bytes is one synchronous call), otherwise the provider is asked
CallFetchTiff(w, project_id, bbox_key) ==
    LET existing == Glob(fetches.files, bbox_key)
        t == [IdleFetcher EXCEPT !.project_id = project_id, !.bbox_key = bbox_key]
    IN  /\ fetches.fetcher[w].pc = "idle"
        /\ \/ /\ existing # {}
              /\ \E f \in existing :
                    fetches' = [fetches EXCEPT !.fetcher[w] =
                        [t EXCEPT !.pc = "returned", !.result = f.content,
                                  !.from = "cache"]]
           \/ /\ existing = {}
              /\ fetches' = [fetches EXCEPT !.fetcher[w] = [t EXCEPT !.pc = "requesting"]]
        /\ UNCHANGED besides_fetches

\* a fetch that writes the response body to the cache file before it looks
\* at the status: the body of an error response is cached too
FetchAnsweredWritesFirst(w) ==
    LET t == fetches.fetcher[w]
    IN  /\ t.pc = "requesting"
        /\ \E content \in ProviderBytes, pc \in {"raised", "returned"} :
              fetches' =
                 [files |-> WriteBytes(fetches.files,
                                       CachePath(t.project_id, t.bbox_key), content),
                  fetcher |-> [fetches.fetcher EXCEPT ![w] =
                                  [t EXCEPT !.pc = pc,
                                            !.result = IF pc = "returned" THEN content
                                                       ELSE "",
                                            !.from = IF pc = "returned" THEN "provider"
                                                     ELSE "",
                                            !.calls = @ + 1]]]
        /\ UNCHANGED besides_fetches

\* the provider has answered: raise_for_status() raises, or the body is
\* written to the cache file and returned, with no await in between
FetchAnswered(w) ==
    LET t == fetches.fetcher[w]
    IN  /\ t.pc = "requesting"
        /\ \/ fetches' = [fetches EXCEPT !.fetcher[w] =
                             [t EXCEPT !.pc = "raised", !.calls = @ + 1]]
           \/ \E content \in ProviderBytes :
                 fetches' =
                    [files |-> WriteBytes(fetches.files,
                                          CachePath(t.project_id, t.bbox_key), content),
                     fetcher |-> [fetches.fetcher EXCEPT ![w] =
                                     [t EXCEPT !.pc = "returned", !.result = content,
                                               !.from = "provider", !.calls = @ + 1]]]
        /\ UNCHANGED besides_fetches

\* every coroutine has ended and the callers have seen the results
FetchesReap ==
    /\ \A w \in Fetchers : fetches.fetcher[w].pc \in {"returned", "raised"}
    /\ fetches' = [fetches EXCEPT !.fetcher = [w \in Fetchers |-> IdleFetcher]]
    /\ UNCHANGED besides_fetches

(***************************************************************************)
(* Sessions (login, logout, _require_token)                                *)
(***************************************************************************)
\* tokens secrets.token_hex(16) can return; a login gets one that no
\* session was given before
MaxTokens == 3

Tokens == 1..MaxTokens

\* a token no login has returned
ForgedToken == MaxTokens + 1

Usernames == {"ann", "bob"}

\* the Authorization header: its scheme and the token after the first space;
\* scheme "" is a missing header
Schemes == {"Bearer", "bearer", "Basic", ""}

\* authorization.lower().startswith("bearer ")
IsBearer(scheme) == scheme \in {"Bearer", "bearer"}

\* sessions.find_one({"token": token})
FindSession(sessions, token) == {x \in sessions : x.token = token}

\* a logout that leaves the session in place
DeleteOneNothing(sessions, token) == sessions

\* sessions.delete_one({"token": token})
DeleteOne(sessions, token) == {x \in sessions : x.token # token}

\* _require_token: the status it ends the request with, 0 if it lets the
\* request through
RequireToken(sessions, scheme, token) ==
    IF ~IsBearer(scheme) THEN 401
    ELSE IF FindSession(sessions, token) = {} THEN 401
    ELSE 0

NoResponse == [route |-> "", scheme |-> "", token |-> ForgedToken, status |-> 0]

\* the sessions collection, the tokens given out, the tokens a logout has
\* ended, and the last response
AuthIdle == [sessions |-> {}, issued |-> 0, ended |-> {}, last |-> NoResponse]

\* login with valid credentials: a new session under a new token
Login(username) ==
    /\ auth.issued < MaxTokens
    /\ LET token == auth.issued + 1
       IN  auth' = [auth EXCEPT
                       !.sessions = @ \cup {[username |-> username, token |-> token]},
                       !.issued = token,
                       !.last = [route |-> "login", scheme |-> "", token |-> token,
                                 status |-> 200]]
    /\ UNCHANGED besides_auth

\* logout(session=Depends(_require_token))
Logout(scheme, token) ==
    LET denied == RequireToken(auth.sessions, scheme, token)
    IN  /\ auth' = IF denied # 0
                   THEN [auth EXCEPT !.last = [route |-> "logout", scheme |-> scheme,
                                               token |-> token, status |-> denied]]
                   ELSE [auth EXCEPT !.sessions = DeleteOne(@, token),
                                     !.ended = @ \cup {token},
                                     !.last = [route |-> "logout", scheme |-> scheme,
                                               token |-> token, status |-> 204]]
        /\ UNCHANGED besides_auth

\* a protected route: list_projects_get(session=Depends(_require_token))
ListProjects(scheme, token) ==
    LET denied == RequireToken(auth.sessions, scheme, token)
    IN  /\ auth' = [auth EXCEPT !.last = [route |-> "projects", scheme |-> scheme,
                                          token |-> token,
                                          status |-> IF denied # 0 THEN denied ELSE 200]]
        /\ UNCHANGED besides_auth

(***************************************************************************)
(* Projects of the platform database                                       *)
(***************************************************************************)
\* a project document; created stays TRUE once the id has been given out
NoProject ==
    [exists |-> FALSE, created |-> FALSE, status |-> "", etl_error |-> "",
     geometry |-> ""]

\* the last response of the project routes: its status and the names of the
\* layers it carries
NoAppResponse ==
    [route |-> "", status |-> 0, layer |-> "", refresh |-> FALSE, layers |-> {}]

\* the projects collection, how the detached pipeline of a project ended,
\* and the last response
AppIdle ==
    [projects |-> [p \in Projects |-> NoProject],
     run |-> [p \in Projects |-> "none"],
     last |-> NoAppResponse]

(***************************************************************************)
(* Resampling a class grid to the DEM's shape (_resample_grid)             *)
(***************************************************************************)
\* the longest side of a source grid and of a target shape
MaxSrc == 3

MaxTarget == 4

\* the source grids: every cell holds its own value
ResampleGrids ==
    { [r \in 1..rows |-> [c \in 1..cols |-> 10 * r + c]] :
         rows \in 1..MaxSrc, cols \in 1..MaxSrc }

GridsIdle == [pc |-> "idle", grid |-> <<>>, target_rows |-> 0, target_cols |-> 0,
              out |-> <<>>]

CallResampleGrid(grid, target_rows, target_cols) ==
    /\ grids.pc = "idle"
    /\ grids' = [pc |-> "returned", grid |-> grid, target_rows |-> target_rows,
                 target_cols |-> target_cols,
                 out |-> _resample_grid(grid, target_rows, target_cols)]
    /\ UNCHANGED besides_grids

ResampleReap ==
    /\ grids.pc = "returned"
    /\ grids' = GridsIdle
    /\ UNCHANGED besides_grids

(***************************************************************************)
(* Tasks                                                                   *)
(***************************************************************************)
IdleTask ==
    [kind |-> "idle", pid |-> "", geom |-> "", country |-> "", pc |-> "idle",
     attempts |-> 0, plan |-> <<>>, soil_doc |-> NoSoil, etl_status |-> NoStatus,
     snap |-> NoDoc, elevation |-> NoElev, lc_fetch |-> "none", wrote |-> "none",
     exc |-> "", log |-> <<>>, tiff |-> "none", dem_calls |-> 0, layer |-> ""]

\* an invocation that takes its project id from a value all invocations share
NewTaskSharedId(kind, p, g) ==
    [IdleTask EXCEPT !.kind = kind, !.pid = "p1", !.geom = g]

NewTask(kind, p, g) == [IdleTask EXCEPT !.kind = kind, !.pid = p, !.geom = g]

\* a new invocation starts when nothing is in flight, in the first slot
FreeSlot(s) ==
    /\ \A q \in Slots : tasks[q].pc = "idle"
    /\ \A q \in Slots : s <= q

Done(t) == t.pc \in {"returned", "raised"}

InLog(t, ev) == \E i \in 1..Len(t.log) : t.log[i] = ev

\* position of the first occurrence of an event in a task's log, 0 if none
Pos(t, ev) ==
    IF InLog(t, ev) THEN CHOOSE i \in 1..Len(t.log) :
                            t.log[i] = ev /\ \A j \in 1..(i - 1) : t.log[j] # ev
    ELSE 0

\* an exception leaving a layer ETL: trigger_etl catches it around
\* run_country_etl, the dispatcher's entry points let it through
Raised(t, msg) ==
    IF t.kind = "trigger_etl"
    THEN [t EXCEPT !.pc = "te_fail", !.exc = msg]
    ELSE [t EXCEPT !.pc = "raised", !.exc = msg]

\* run_all: soil first; the task is left at the soil ETL's first request
EnterSoil(t, plan) ==
    [t EXCEPT !.pc = "soil_post", !.attempts = 0, !.plan = plan,
              !.log = Append(@, "soil")]

EnterLandCover(t) == [t EXCEPT !.pc = "lc_read", !.log = Append(@, "land_cover")]

\* a run_all that starts with the land-cover ETL
RunAllLandCoverFirst(t, plan) == EnterLandCover(t)

\* run_all(project): await soil.fetch_soil_data(project), then land cover
run_all(t, plan) == EnterSoil(t, plan)

\* fetch_soil_data has returned: run_all goes on to the land-cover ETL,
\* run_layer returns to its caller
AfterSoil(t) ==
    IF t.kind \in {"trigger_etl", "run_country_etl"}
    THEN EnterLandCover([t EXCEPT !.log = Append(@, "soil_returned")])
    ELSE [t EXCEPT !.pc = "returned", !.log = Append(@, "soil_returned")]

\* fetch_land_cover_data has returned {"ok": True}; every caller returns
AfterLandCover(t) ==
    [t EXCEPT !.pc = "returned", !.log = Append(@, "land_cover_returned")]

TypeOK ==
    /\ DOMAIN terrain = Tenants
    /\ DOMAIN demCache = Geometries
    /\ \A g \in Geometries : demCache[g] \in {"none", "good", "corrupt"}
    /\ env \in [remote_only : BOOLEAN, force_error_once : BOOLEAN]
    /\ DOMAIN tasks = Slots
    /\ \A s \in Slots :
          tasks[s].pc \in {"idle", "te_region", "te_fetch", "te_store", "te_country",
                           "te_fail", "soil_post", "soil_store", "lc_read",
                           "lc_forced", "lc_fetch", "returned", "raised"}
    /\ \A n \in DatasetNames : refdb.count[n] \in 0..MaxRecords
    /\ loader.pc \in {"idle", "download", "insert", "datasets", "refresh_jobs",
                      "returned", "raised"}
    /\ geo.pc \in {"idle", "validated", "revalidated"}
    /\ region.pc \in {"idle", "country", "subdivision", "returned", "raised"}

Init ==
    /\ terrain = [p \in Tenants |-> NoDoc]
    /\ demCache = [g \in Geometries |-> "none"]
    /\ env \in [remote_only : BOOLEAN, force_error_once : BOOLEAN]
    /\ tasks = [s \in Slots |-> IdleTask]
    /\ refdb = EmptyRefdb
    /\ loader = IdleLoader
    /\ geo = GeoIdle
    /\ region = RegionIdle
    /\ square = SquareIdle
    /\ tiffs = RasterIdle
    /\ legend = LegendIdle
    /\ fetches = FetchesIdle
    /\ auth = AuthIdle
    /\ app = AppIdle
    /\ grids = GridsIdle

(***************************************************************************)
(* Entry points                                                            *)
(***************************************************************************)
\* a registry lookup that compares the code as it was given
HasCountryModuleExact(code) == code \in COUNTRY_MODULES

\* _get_country_module: the upper-cased code is looked up in the registry
HasCountryModule(code) == Upper(code) \in COUNTRY_MODULES

\* trigger_etl(project): up to the first await (resolve_region)
CallTriggerEtl(s, p, g) ==
    /\ FreeSlot(s)
    /\ tasks' = [tasks EXCEPT ![s] =
                    [NewTask("trigger_etl", p, g) EXCEPT !.pc = "te_region"]]
    /\ UNCHANGED <<terrain, demCache, env>>
    /\ UNCHANGED <<reference, geo, services>>

\* run_country_etl(country_code, project): dispatch, then run_all up to the
\* soil ETL's first request
CallRunCountryEtl(s, code, p, g) ==
    /\ FreeSlot(s)
    /\ \E plan \in SoilPlans :
          tasks' = [tasks EXCEPT ![s] =
              LET t == [NewTask("run_country_etl", p, g) EXCEPT
                            !.country = code, !.log = <<"run_country_etl">>]
              IN  IF HasCountryModule(code) THEN run_all(t, plan)
                  ELSE Raised(t, "No ETL module defined for country")]
    /\ UNCHANGED <<terrain, demCache, env>>
    /\ UNCHANGED <<reference, geo, services>>

\* run_layer(layer, project) of the USA module
run_layer(t, layer, plan) ==
    IF Lower(layer) = "soil" THEN EnterSoil(t, plan)
    ELSE IF Lower(layer) \in {"land_cover", "landcover", "land-cover"}
    THEN EnterLandCover(t)
    ELSE Raised(t, "Unsupported USA layer ETL")

\* run_country_layer(country_code, layer, project)
CallRunCountryLayer(s, code, layer, p, g) ==
    /\ FreeSlot(s)
    /\ \E plan \in SoilPlans :
          tasks' = [tasks EXCEPT ![s] =
              LET t == [NewTask("run_country_layer", p, g) EXCEPT
                            !.country = code, !.layer = layer,
                            !.log = <<"run_country_layer">>]
              IN  IF HasCountryModule(code) THEN run_layer(t, layer, plan)
                  ELSE Raised(t, "No ETL module defined for country")]
    /\ UNCHANGED <<terrain, demCache, env>>
    /\ UNCHANGED <<reference, geo, services>>

(***************************************************************************)
(* trigger_etl                                                             *)
(***************************************************************************)
\* region = await resolve_region(geom); a failure leaves region = {}
TeRegion(s) ==
    /\ tasks[s].pc = "te_region"
    /\ \E r \in RegionResults :
          tasks' = [tasks EXCEPT ![s] = [@ EXCEPT !.country = r, !.pc = "te_fetch"]]
    /\ UNCHANGED <<terrain, demCache, env>>
    /\ UNCHANGED <<reference, geo, services>>

\* a DEM failure handled like a country ETL failure (inside the try block)
ProcessTiffCaught(t, bytes) ==
    IF bytes = "corrupt"
    THEN [t EXCEPT !.pc = "te_fail", !.exc = "dem process failed"]
    ELSE [t EXCEPT !.pc = "te_store", !.elevation = ProcessedDem(t.geom)]

\* _process_tiff on the fetched bytes: unreadable bytes raise, out of trigger_etl
ProcessTiff(t, bytes) ==
    IF bytes = "corrupt"
    THEN [t EXCEPT !.pc = "raised", !.exc = "dem process failed"]
    ELSE [t EXCEPT !.pc = "te_store", !.elevation = ProcessedDem(t.geom)]

\* a cache lookup that never finds an entry
CacheLookupMiss(cache, g) == "none"

\* existing = list(CACHE_DIR.glob(f"*_{bbox_key}")): the entry stored under
\* the geometry's bounding-box key, "none" when there is none
CacheLookup(cache, g) == cache[g]

\* tiff_bytes = await _fetch_tiff(geom, project_id), then _process_tiff:
\* a cache entry for the box is returned as it is; otherwise the provider is
\* asked (dem_calls counts the requests) and its answer cached, unless the
\* request fails
TeFetch(s) ==
    LET t == tasks[s]
        g == t.geom
        existing == CacheLookup(demCache, g)
    IN  /\ t.pc = "te_fetch"
        /\ \/ /\ existing # "none"
              /\ tasks' = [tasks EXCEPT ![s] =
                              ProcessTiff([t EXCEPT !.tiff = existing], existing)]
              /\ UNCHANGED demCache
           \/ /\ existing = "none"
              /\ \E answer \in {"good", "corrupt"} :
                    /\ demCache' = [demCache EXCEPT ![g] = answer]
                    /\ tasks' = [tasks EXCEPT ![s] =
                          ProcessTiff([t EXCEPT !.tiff = answer, !.dem_calls = @ + 1],
                                      answer)]
           \/ /\ existing = "none"
              /\ tasks' = [tasks EXCEPT ![s] =
                              [t EXCEPT !.pc = "raised", !.exc = "dem fetch failed",
                                        !.dem_calls = @ + 1]]
              /\ UNCHANGED demCache
        /\ UNCHANGED <<terrain, env>>
        /\ UNCHANGED <<reference, geo, services>>

\* update_one({"$set": terrain_doc}, upsert=True): elevation_data is replaced
\* and etl_layers is replaced by {"dem": ok}
DemStored(doc, elevation) ==
    [doc EXCEPT !.exists = TRUE, !.elevation_data = elevation,
                !.etl_layers = [NoLayers EXCEPT !.dem = OkStatus]]

TeStore(s) ==
    LET t == tasks[s]
    IN  /\ t.pc = "te_store"
        /\ terrain' = [terrain EXCEPT ![t.pid] = DemStored(@, t.elevation)]
        /\ tasks' = [tasks EXCEPT ![s] =
                        [t EXCEPT !.pc = "te_country", !.log = Append(@, "dem_stored")]]
        /\ UNCHANGED <<demCache, env>>
        /\ UNCHANGED <<reference, geo, services>>

\* await terrain.run_country_etl(region.get("country"), ...) inside the try
TeCountry(s) ==
    LET t == [tasks[s] EXCEPT !.log = Append(@, "run_country_etl")]
    IN  /\ tasks[s].pc = "te_country"
        /\ \E plan \in SoilPlans :
              tasks' = [tasks EXCEPT ![s] =
                  IF HasCountryModule(t.country) THEN run_all(t, plan)
                  ELSE Raised(t, "No ETL module defined for country")]
        /\ UNCHANGED <<terrain, demCache, env>>
        /\ UNCHANGED <<reference, geo, services>>

\* the except branch: etl_layers is replaced by dem plus a failed status on
\* both layers, and the exception is raised again
FailedLayers(exc) ==
    [dem |-> OkStatus, soil |-> FailedStatus(exc), land_cover |-> FailedStatus(exc)]

TeFail(s) ==
    LET t == tasks[s]
    IN  /\ t.pc = "te_fail"
        /\ terrain' = [terrain EXCEPT ![t.pid] =
                          [@ EXCEPT !.exists = TRUE, !.etl_layers = FailedLayers(t.exc)]]
        /\ tasks' = [tasks EXCEPT ![s] = [t EXCEPT !.pc = "raised"]]
        /\ UNCHANGED <<demCache, env>>
        /\ UNCHANGED <<reference, geo, services>>

(***************************************************************************)
(* fetch_soil_data                                                         *)
(***************************************************************************)
\* while attempts < 2 ... if attempts >= 2: raise
SoilMaxAttempts == 2

\* a soil ETL that goes on without looking at the DEM prerequisites
SoilAnsweredUnchecked(t, doc, table, raster_raises) ==
    LET out == SoilOutcome(table, doc.elevation_data, raster_raises)
    IN  [t EXCEPT !.pc = "soil_store",
                  !.soil_doc = SoilDoc(table, doc.elevation_data, out.grid),
                  !.etl_status = out.etl_status]

\* the provider answered: the terrain document is read, the prerequisites
\* are checked, the rows are parsed and rasterized
SoilAnswered(t, doc, table, raster_raises) ==
    LET elev == doc.elevation_data
        out == SoilOutcome(table, elev, raster_raises)
    IN  IF ~doc.exists \/ ~elev.present
        THEN Raised(t, "DEM must be loaded before soil ETL")
        ELSE IF GridRows(elev.heightmap) = 0 \/ GridCols(elev.heightmap) = 0
                \/ elev.transform = ""
        THEN Raised(t, "DEM heightmap and transform are required")
        ELSE [t EXCEPT !.pc = "soil_store",
                       !.soil_doc = SoilDoc(table, elev, out.grid),
                       !.etl_status = out.etl_status]

\* the except branch of the request loop: the last attempt raises again;
\* before that it evaluates asyncio.sleep(1), a NameError without the import
SoilRequestFailed(t) ==
    IF t.attempts >= SoilMaxAttempts THEN Raised(t, "soil provider failed")
    ELSE IF AsyncioImported THEN t
    ELSE Raised(t, "name 'asyncio' is not defined")

\* one pass of the request loop: attempts += 1 and the POST
SoilPost(s) ==
    LET t == [tasks[s] EXCEPT !.attempts = @ + 1]
    IN  /\ tasks[s].pc = "soil_post"
        /\ \/ /\ t.plan[t.attempts] = "ok"
              /\ \E table \in SoilTables, raster_raises \in BOOLEAN :
                    tasks' = [tasks EXCEPT ![s] =
                        SoilAnswered(t, terrain[t.pid], table, raster_raises)]
           \/ /\ t.plan[t.attempts] = "fail"
              /\ tasks' = [tasks EXCEPT ![s] = SoilRequestFailed(t)]
        /\ UNCHANGED <<terrain, demCache, env>>
        /\ UNCHANGED <<reference, geo, services>>

\* update_one({"$set": {"soil_data": soil_doc, "etl_layers.soil": etl_status}},
\* upsert=True), then return
SoilStore(s) ==
    LET t == tasks[s]
    IN  /\ t.pc = "soil_store"
        /\ terrain' = [terrain EXCEPT ![t.pid] =
                          [@ EXCEPT !.exists = TRUE, !.soil_data = t.soil_doc,
                                    !.etl_layers.soil = t.etl_status]]
        /\ tasks' = [tasks EXCEPT ![s] = AfterSoil(t)]
        /\ UNCHANGED <<demCache, env>>
        /\ UNCHANGED <<reference, geo, services>>

(***************************************************************************)
(* fetch_land_cover_data                                                   *)
(***************************************************************************)
\* a forced-failure hook that fires whatever the stored status is
ForcedFailureAnyStatus(snap) == env.force_error_once

\* os.getenv("LAND_COVER_FORCE_ERROR_ONCE") == "1" and previous_status is None
ForcedFailure(snap) ==
    env.force_error_once /\ snap.etl_layers.land_cover.status = "none"

\* terrain = await find_one(...) or {}; then the forced-failure hook
LcRead(s) ==
    LET t == tasks[s]
        snap == terrain[t.pid]
        forced == ForcedFailure(snap)
    IN  /\ t.pc = "lc_read"
        /\ tasks' = [tasks EXCEPT ![s] =
                        [t EXCEPT !.snap = snap,
                                  !.pc = IF forced THEN "lc_forced" ELSE "lc_fetch"]]
        /\ env' = IF forced THEN [env EXCEPT !.force_error_once = FALSE] ELSE env
        /\ UNCHANGED <<terrain, demCache>>
        /\ UNCHANGED <<reference, geo, services>>

\* an etl_layers map that holds the land_cover status alone
LayersOnlyLandCover(snap, etl_status) == [NoLayers EXCEPT !.land_cover = etl_status]

\* dict(terrain.get("etl_layers") or {}) with ["land_cover"] = etl_status:
\* the statuses of the document read earlier, with land_cover's put in
LayersWithLandCover(snap, etl_status) ==
    [snap.etl_layers EXCEPT !.land_cover = etl_status]

\* the forced failure: status failed ("forced") is stored, then RuntimeError
LcForced(s) ==
    LET t == tasks[s]
    IN  /\ t.pc = "lc_forced"
        /\ terrain' = [terrain EXCEPT ![t.pid] =
              [@ EXCEPT !.exists = TRUE,
                        !.etl_layers = LayersWithLandCover(t.snap, FailedStatus("forced"))]]
        /\ tasks' = [tasks EXCEPT ![s] =
                        Raised([t EXCEPT !.wrote = "failed"], "forced land cover failure")]
        /\ UNCHANGED <<demCache, env>>
        /\ UNCHANGED <<reference, geo, services>>

\* a failed fetch that stores the failure and returns without raising
LcFailedSwallowed(t) ==
    AfterLandCover([t EXCEPT !.lc_fetch = "failed", !.wrote = "failed"])

\* the except branch without a fallback: the failure is stored and raised again
LcFailed(t) ==
    Raised([t EXCEPT !.lc_fetch = "failed", !.wrote = "failed"],
           "land cover fetch failed")

\* the final update_one: land_cover and etl_layers are set, then return
LcStored(doc, snap, raster, etl_status) ==
    [doc EXCEPT !.exists = TRUE,
                !.land_cover = LandCoverDoc(snap, raster),
                !.etl_layers = LayersWithLandCover(snap, etl_status)]

\* raster = await _fetch_land_cover_raster(project) and what follows it
LcFetch(s) ==
    LET t == tasks[s]
        snap == t.snap
        fallback == IF FallbackAllowed(snap.etl_layers.land_cover.status,
                                       AllowFallbackFirst)
                    THEN _fallback_from_soil(snap) ELSE NoFallback
    IN  /\ t.pc = "lc_fetch"
        /\ \/ \E raster \in LcRasters :
                 /\ terrain' = [terrain EXCEPT ![t.pid] =
                                   LcStored(@, snap, raster, OkStatus)]
                 /\ tasks' = [tasks EXCEPT ![s] =
                       AfterLandCover([t EXCEPT !.lc_fetch = "ok", !.wrote = "ok"])]
           \/ /\ fallback.present
              /\ terrain' = [terrain EXCEPT ![t.pid] =
                                LcStored(@, snap, fallback, FallbackStatus)]
              /\ tasks' = [tasks EXCEPT ![s] =
                    AfterLandCover([t EXCEPT !.lc_fetch = "failed", !.wrote = "ok"])]
           \/ /\ ~fallback.present
              /\ terrain' = [terrain EXCEPT ![t.pid] =
                    [@ EXCEPT !.exists = TRUE,
                              !.etl_layers = LayersWithLandCover(snap,
                                                 FailedStatus("land cover fetch failed"))]]
              /\ tasks' = [tasks EXCEPT ![s] = LcFailed(t)]
        /\ UNCHANGED <<demCache, env>>
        /\ UNCHANGED <<reference, geo, services>>

(***************************************************************************)
(* Project routes of the platform (create, grid, delete)                   *)
(***************************************************************************)
\* the slot of the pipeline task that project creation detaches, and the
\* slot of the soil task that the grid route detaches
PipelineSlot == CHOOSE s \in Slots : \A q \in Slots : s <= q

BackfillSlot == CHOOSE s \in Slots : \A q \in Slots : q <= s

\* the layer parameter of the grid route, "" for none
GridLayers == {"", "soil", "land_cover"}

\* a pipeline end that is always recorded as ready
RunStatusAlwaysReady(t) == [status |-> "ready", etl_error |-> ""]

\* the two branches of _run: status ready after trigger_etl returned,
\* etl_failed with etl_error = str(exc) after it raised
RunStatus(t) ==
    IF t.pc = "returned" THEN [status |-> "ready", etl_error |-> ""]
    ELSE [status |-> "etl_failed", etl_error |-> t.exc]

\* POST /projects with a valid payload: the project is inserted, its status
\* set to etl_pending, the pipeline detached with loop.create_task, and 201
\* returned.  project_id is secrets.token_hex(8): an id is given out once.
CreateProject(p, g) ==
    /\ ~app.projects[p].created
    /\ tasks[PipelineSlot].pc = "idle"
    /\ app' = [app EXCEPT
                  !.projects[p] = [exists |-> TRUE, created |-> TRUE,
                                   status |-> "etl_pending", etl_error |-> "",
                                   geometry |-> g],
                  !.run[p] = "running",
                  !.last = [NoAppResponse EXCEPT !.route = "create", !.status = 201]]
    /\ tasks' = [tasks EXCEPT ![PipelineSlot] =
                    [NewTask("trigger_etl", p, g) EXCEPT !.pc = "te_region"]]
    /\ UNCHANGED <<terrain, demCache, env>>
    /\ UNCHANGED <<reference, geo, region, square, tiffs, legend, fetches, auth, grids>>

\* _run after trigger_etl has ended: projects.update_one sets the status of
\* the project if the document is still there
RunFinished ==
    LET t == tasks[PipelineSlot]
    IN  /\ t.kind = "trigger_etl"
        /\ Done(t)
        /\ app.run[t.pid] = "running"
        /\ app' = [app EXCEPT
                      !.projects[t.pid] =
                          IF @.exists
                          THEN [@ EXCEPT !.status = RunStatus(t).status,
                                         !.etl_error = RunStatus(t).etl_error]
                          ELSE @,
                      !.run[t.pid] = t.pc]
        /\ tasks' = [tasks EXCEPT ![PipelineSlot] = IdleTask]
        /\ UNCHANGED <<terrain, demCache, env>>
        /\ UNCHANGED <<reference, geo, region, square, tiffs, legend, fetches, auth, grids>>

\* the layers dict of the grid route: dem and soil, each when the terrain
\* document holds it
GridLayersOf(doc) ==
    (IF doc.elevation_data.present THEN {"dem"} ELSE {})
       \cup (IF doc.soil_data.present THEN {"soil"} ELSE {})

\* if refresh and (layer in (None, "soil")): if not soil or the soil status
\* is failed
SoilRefreshDue(doc, layer, refresh) ==
    /\ refresh
    /\ layer \in {"", "soil"}
    /\ ~doc.soil_data.present \/ doc.etl_layers.soil.status = "failed"

\* the response of the grid route for the terrain document it has read
GridResponse(doc, layer, refresh) ==
    LET layers == GridLayersOf(doc)
        r == [NoAppResponse EXCEPT !.route = "grid", !.layer = layer,
                                   !.refresh = refresh]
    IN  IF ~doc.exists THEN [r EXCEPT !.status = 404]
        ELSE IF layer # "" /\ layer \notin layers THEN [r EXCEPT !.status = 404]
        ELSE [r EXCEPT !.status = 200,
                       !.layers = IF layer = "" THEN layers ELSE {layer}]

\* GET /projects/{id}/grid: the terrain document is read once; a soil task
\* is detached when a refresh is due (_trigger_soil_etl does not wait for
\* it, and the task ends at once without a project geometry); the response
\* is built from the document read at the start
GetGrid(p, layer, refresh) ==
    LET doc == terrain[p]
        due == doc.exists /\ SoilRefreshDue(doc, layer, refresh)
                  /\ app.projects[p].exists
    IN  /\ due => tasks[BackfillSlot].pc = "idle"
        /\ app' = [app EXCEPT !.last = GridResponse(doc, layer, refresh)]
        /\ IF due
           THEN \E plan \in SoilPlans :
                   tasks' = [tasks EXCEPT ![BackfillSlot] =
                       EnterSoil(NewTask("fetch_soil_data", p,
                                         app.projects[p].geometry), plan)]
           ELSE UNCHANGED tasks
        /\ UNCHANGED <<terrain, demCache, env>>
        /\ UNCHANGED <<reference, geo, region, square, tiffs, legend, fetches, auth, grids>>

\* _run of _trigger_soil_etl after fetch_soil_data has ended: an exception is
\* logged and dropped
BackfillFinished ==
    LET t == tasks[BackfillSlot]
    IN  /\ t.kind = "fetch_soil_data"
        /\ Done(t)
        /\ tasks' = [tasks EXCEPT ![BackfillSlot] = IdleTask]
        /\ UNCHANGED <<terrain, demCache, env>>
        /\ UNCHANGED <<reference, geo, services>>

\* DELETE /projects/{id} by the owner: the project document is deleted, then
\* terrain.delete_one({"project_id": project_id})
DeleteProject(p) ==
    /\ app.projects[p].exists
    /\ app' = [app EXCEPT
                  !.projects[p] = [NoProject EXCEPT !.created = TRUE],
                  !.last = [NoAppResponse EXCEPT !.route = "delete", !.status = 204]]
    /\ terrain' = [terrain EXCEPT ![p] = NoDoc]
    /\ UNCHANGED <<demCache, env, tasks>>
    /\ UNCHANGED <<reference, geo, region, square, tiffs, legend, fetches, auth, grids>>

(***************************************************************************)
(* Pipelines of several projects at the same time                          *)
(***************************************************************************)
\* the project a slot's invocations are made for
TenantOf(s) == IF s % 2 = 1 THEN "p1" ELSE "p2"

\* trigger_etl(project) for the slot's project, up to the first await, while
\* the invocations of the other slots are in flight
CallTriggerEtlConcurrently(s, g) ==
    /\ tasks[s].pc = "idle"
    /\ tasks' = [tasks EXCEPT ![s] =
                    [NewTask("trigger_etl", TenantOf(s), g) EXCEPT !.pc = "te_region"]]
    /\ UNCHANGED <<terrain, demCache, env>>
    /\ UNCHANGED <<reference, geo, services>>

\* a soil backfill (fetch_soil_data) of the slot's project once its pipeline
\* has ended
CallBackfillConcurrently(s) ==
    /\ tasks[s].kind = "trigger_etl"
    /\ Done(tasks[s])
    /\ \E plan \in SoilPlans :
          tasks' = [tasks EXCEPT ![s] =
              EnterSoil(NewTask("fetch_soil_data", TenantOf(s), tasks[s].geom), plan)]
    /\ UNCHANGED <<terrain, demCache, env>>
    /\ UNCHANGED <<reference, geo, services>>

(***************************************************************************)
(* Specification                                                           *)
(***************************************************************************)
\* the caller has seen the result; the slot is free for the next invocation
Reap(s) ==
    /\ Done(tasks[s])
    /\ tasks' = [tasks EXCEPT ![s] = IdleTask]
    /\ UNCHANGED <<terrain, demCache, env>>
    /\ UNCHANGED <<reference, geo, services>>

Next ==
    \E s \in Slots :
        \/ \E p \in Projects, g \in Geometries : CallTriggerEtl(s, p, g)
        \/ \E c \in CountryInputs, p \in Projects, g \in Geometries :
              CallRunCountryEtl(s, c, p, g)
        \/ \E c \in CountryInputs, l \in LayerInputs, p \in Projects, g \in Geometries :
              CallRunCountryLayer(s, c, l, p, g)
        \/ TeRegion(s)
        \/ TeFetch(s)
        \/ TeStore(s)
        \/ TeCountry(s)
        \/ TeFail(s)
        \/ SoilPost(s)
        \/ SoilStore(s)
        \/ LcRead(s)
        \/ LcForced(s)
        \/ LcFetch(s)
        \/ Reap(s)

Spec == Init /\ [][Next]_vars

\* the reference loaders, one invocation after the other
NextRef ==
    \/ \E name \in DatasetNames : CallLoader(name)
    \/ LoaderDownload
    \/ LoaderInsert
    \/ LoaderDatasets
    \/ LoaderRefreshJobs
    \/ LoaderReap

SpecRef == Init /\ [][NextRef]_vars

\* validate_geometry on every input
NextGeo ==
    \/ \E g \in GeoInputs : CallValidateGeometry(g)
    \/ Revalidate
    \/ GeoDone

SpecGeo == Init /\ [][NextGeo]_vars

\* resolve_region on every geometry and every content of the two collections
NextRegion ==
    \/ \E g \in GeoInputs, regions \in RegionsContents,
          subdivisions \in SubdivisionsContents :
          CallResolveRegion(g, regions, subdivisions)
    \/ RegionCountry
    \/ RegionSubdivision
    \/ RegionReap

SpecRegion == Init /\ [][NextRegion]_vars

\* _square_bbox on every bounds, ratio and minimal buffer
NextSquare ==
    \/ \E b \in BoundsInputs, h \in RatioHalves, m \in MinBuffers : CallSquareBbox(b, h, m)
    \/ SquareReap

SpecSquare == Init /\ [][NextSquare]_vars

\* _process_tiff on every raster
NextRaster ==
    \/ \E tiff \in RasterInputs :
          \E geom_bounds \in CropInputs(tiff) :
              CallProcessTiff(tiff, geom_bounds)
    \/ RasterReap

SpecRaster == Init /\ [][NextRaster]_vars

\* the legend of every grid under every key table
NextLegend ==
    \/ \E grid \in LegendGrids, key_docs \in KeyTables : CallBuildLegend(grid, key_docs)
    \/ LegendReap

SpecLegend == Init /\ [][NextLegend]_vars

\* _fetch_tiff in several coroutines at once
NextFetches ==
    \/ \E w \in Fetchers, p \in FetchProjects, k \in BboxKeys : CallFetchTiff(w, p, k)
    \/ \E w \in Fetchers : FetchAnswered(w)
    \/ FetchesReap

SpecFetches == Init /\ [][NextFetches]_vars

\* logins, logouts and requests to a protected route, under any header
NextAuth ==
    \/ \E u \in Usernames : Login(u)
    \/ \E scheme \in Schemes, token \in Tokens \cup {ForgedToken} : Logout(scheme, token)
    \/ \E scheme \in Schemes, token \in Tokens \cup {ForgedToken} :
          ListProjects(scheme, token)

SpecAuth == Init /\ [][NextAuth]_vars

\* the project routes with the tasks they detach: the pipeline of a created
\* project, the soil task of a grid refresh, and the deletion, interleaved
NextApp ==
    \/ \E p \in Projects, g \in Geometries : CreateProject(p, g)
    \/ \E p \in Projects, layer \in GridLayers, refresh \in BOOLEAN :
          GetGrid(p, layer, refresh)
    \/ \E p \in Projects : DeleteProject(p)
    \/ RunFinished
    \/ BackfillFinished
    \/ \E s \in Slots :
          \/ TeRegion(s)
          \/ TeFetch(s)
          \/ TeStore(s)
          \/ TeCountry(s)
          \/ TeFail(s)
          \/ SoilPost(s)
          \/ SoilStore(s)
          \/ LcRead(s)
          \/ LcForced(s)
          \/ LcFetch(s)

SpecApp == Init /\ [][NextApp]_vars

\* _resample_grid on every source grid and every target shape
NextResample ==
    \/ \E grid \in ResampleGrids, target_rows \in 1..MaxTarget,
          target_cols \in 1..MaxTarget :
          CallResampleGrid(grid, target_rows, target_cols)
    \/ ResampleReap

SpecResample == Init /\ [][NextResample]_vars

\* the pipelines of two projects, each followed by a soil backfill, in any
\* interleaving
NextTenants ==
    \E s \in Slots :
        \/ \E g \in Geometries : CallTriggerEtlConcurrently(s, g)
        \/ CallBackfillConcurrently(s)
        \/ TeRegion(s)
        \/ TeFetch(s)
        \/ TeStore(s)
        \/ TeCountry(s)
        \/ TeFail(s)
        \/ SoilPost(s)
        \/ SoilStore(s)
        \/ LcRead(s)
        \/ LcForced(s)
        \/ LcFetch(s)

SpecTenants == Init /\ [][NextTenants]_vars

(***************************************************************************)
(* Properties                                                              *)
(***************************************************************************)
InFlight == {s \in Slots : tasks[s].kind # "idle"}

SameShape(grid, heightmap) ==
    GridRows(grid) = GridRows(heightmap) /\ GridCols(grid) = GridCols(heightmap)

SoilStage == {"soil_post", "soil_store"}

LandCoverStage == {"lc_read", "lc_forced", "lc_fetch"}

\* fetch_land_cover_data has raised: trigger_etl is in its except branch or
\* has raised again, the dispatcher's entry points have raised
LcRaised(t) == t.pc \in {"te_fail", "raised"}

\* C1: in trigger_etl, run_country_etl is invoked only after the terrain
\* document holds this run's elevation_data with etl_layers.dem.status = ok;
\* in run_all the land-cover ETL starts only after the soil ETL has returned,
\* and the two stages never overlap.
C1_StagesInOrder ==
    \A s \in InFlight :
        LET t == tasks[s]
            doc == terrain[t.pid]
        IN  /\ (t.kind = "trigger_etl" /\ t.pc = "te_country")
                  => /\ doc.exists
                     /\ doc.elevation_data.present
                     /\ doc.elevation_data = t.elevation
                     /\ doc.etl_layers.dem.status = "ok"
            /\ (t.kind = "trigger_etl" /\ InLog(t, "run_country_etl"))
                  => /\ Pos(t, "dem_stored") > 0
                     /\ Pos(t, "dem_stored") < Pos(t, "run_country_etl")
            /\ (t.kind \in {"trigger_etl", "run_country_etl"} /\ InLog(t, "land_cover"))
                  => /\ Pos(t, "soil") > 0
                     /\ Pos(t, "soil") < Pos(t, "soil_returned")
                     /\ Pos(t, "soil_returned") < Pos(t, "land_cover")
            /\ t.pc \in SoilStage => ~InLog(t, "land_cover")
            /\ (t.pc \in LandCoverStage /\ InLog(t, "soil")) => InLog(t, "soil_returned")

\* a trigger_etl that went through DEM, soil and land cover and returned
C1_Witness ==
    \E s \in InFlight :
        /\ tasks[s].kind = "trigger_etl"
        /\ tasks[s].pc = "returned"
        /\ InLog(tasks[s], "soil_returned")
        /\ InLog(tasks[s], "land_cover_returned")

\* C2: when _fetch_tiff or _process_tiff raises inside trigger_etl, the
\* exception leaves trigger_etl (no except branch runs), the step leaves the
\* terrain collection as it was, and no country ETL, soil ETL or land-cover
\* ETL has been invoked.
C2_DemFailurePropagates ==
    [][\A s \in Slots :
          (tasks[s].pc = "te_fetch" /\ tasks'[s].pc # "te_store")
             => /\ tasks'[s].pc = "raised"
                /\ tasks'[s].exc \in {"dem fetch failed", "dem process failed"}
                /\ terrain' = terrain
                /\ tasks'[s].log = <<>>]_vars

\* _process_tiff has raised on a project that already had a terrain document
C2_Witness ==
    \E s \in InFlight :
        /\ tasks[s].kind = "trigger_etl"
        /\ tasks[s].pc = "raised"
        /\ tasks[s].exc = "dem process failed"
        /\ terrain[tasks[s].pid].elevation_data.present
        /\ terrain[tasks[s].pid].soil_data.present

\* C3: a soil ETL whose first request fails and whose second would succeed
\* makes exactly two requests: once it has left the request loop it has made
\* two attempts, it has not raised out of the loop, and with usable polygons
\* rasterized it stores etl_layers.soil.status = ok.
C3_RetriesOnceThenOk ==
    \A s \in InFlight :
        LET t == tasks[s]
        IN  (t.plan = <<"fail", "ok">> /\ InLog(t, "soil") /\ t.pc # "soil_post")
               => /\ t.attempts = 2
                  /\ t.exc # "name 'asyncio' is not defined"
                  /\ (t.pc = "soil_store" /\ t.soil_doc.grid # <<>>)
                        => t.etl_status.status = "ok"

\* C4: the land-cover fetch fails, the fallback is enabled and the document
\* read holds a non-empty soil grid: the ETL returns normally, the stored
\* land_cover status is ok with note fallback_soil, and the stored grid is
\* the soil grid, resampled to the DEM's shape when the shapes differ.
C4_FallbackFromSoil ==
    \A s \in InFlight :
        LET t == tasks[s]
            doc == terrain[t.pid]
            soil_grid == t.snap.soil_data.grid
            heightmap == t.snap.elevation_data.heightmap
        IN  (t.lc_fetch = "failed" /\ ~env.remote_only /\ soil_grid # <<>>)
               => /\ t.pc = "returned"
                  /\ doc.etl_layers.land_cover = FallbackStatus
                  /\ doc.land_cover.present
                  /\ doc.land_cover.grid =
                        IF SameShape(soil_grid, heightmap) THEN soil_grid
                        ELSE ResampleNoShapeCheck(soil_grid, GridRows(heightmap),
                                                  GridCols(heightmap))
                  /\ SameShape(doc.land_cover.grid, heightmap)

\* the fallback used a soil grid of another shape than the DEM's
C4_Witness ==
    \E s \in InFlight :
        LET t == tasks[s]
        IN  /\ t.lc_fetch = "failed"
            /\ ~env.remote_only
            /\ t.pc = "returned"
            /\ t.snap.soil_data.grid # <<>>
            /\ ~SameShape(t.snap.soil_data.grid, t.snap.elevation_data.heightmap)
            /\ terrain[t.pid].etl_layers.land_cover.note = "fallback_soil"

C7_RetryAfterFailure ==
    \A s \in InFlight :
        LET t == tasks[s]
            doc == terrain[t.pid]
            heightmap == t.snap.elevation_data.heightmap
        IN  t.snap.etl_layers.land_cover.status = "failed"
               => /\ t.pc # "lc_forced"
                  /\ t.lc_fetch = "ok"
                        => /\ t.pc = "returned"
                           /\ doc.etl_layers.land_cover = OkStatus
                           /\ doc.land_cover.present
                           /\ doc.land_cover.grid # <<>>
                           /\ \E raster \in LcRasters :
                                 doc.land_cover.grid =
                                    AlignedGrid(raster.grid, GridRows(heightmap),
                                                GridCols(heightmap))

\* a retry after a stored failure has fetched and returned
C7_Witness ==
    \E s \in InFlight :
        /\ tasks[s].snap.etl_layers.land_cover.status = "failed"
        /\ tasks[s].lc_fetch = "ok"
        /\ tasks[s].pc = "returned"
        /\ terrain[tasks[s].pid].etl_layers.land_cover.status = "ok"

\* C8: on a document with elevation_data and soil_data and no land_cover, a
\* run_country_layer(country, "land_cover", project) that returns leaves the
\* document with a land_cover field and land_cover status ok, and with
\* elevation_data, soil_data, etl_layers.dem and etl_layers.soil as before.
C8_BackfillKeepsOtherLayers ==
    \A s \in InFlight :
        LET t == tasks[s]
            doc == terrain[t.pid]
        IN  (/\ t.kind = "run_country_layer"
             /\ InLog(t, "land_cover")
             /\ t.pc = "returned"
             /\ t.snap.elevation_data.present
             /\ t.snap.soil_data.present
             /\ ~t.snap.land_cover.present)
               => /\ doc.land_cover.present
                  /\ doc.etl_layers.land_cover.status = "ok"
                  /\ doc.elevation_data = t.snap.elevation_data
                  /\ doc.soil_data = t.snap.soil_data
                  /\ doc.etl_layers.dem = t.snap.etl_layers.dem
                  /\ doc.etl_layers.soil = t.snap.etl_layers.soil

\* a land-cover backfill has returned on a document that had DEM and soil
\* with their statuses and no land cover
C8_Witness ==
    \E s \in InFlight :
        LET t == tasks[s]
        IN  /\ t.kind = "run_country_layer"
            /\ InLog(t, "land_cover")
            /\ t.pc = "returned"
            /\ t.snap.elevation_data.present
            /\ t.snap.soil_data.grid # <<>>
            /\ t.snap.etl_layers.soil.status = "ok"
            /\ ~t.snap.land_cover.present
            /\ terrain[t.pid].land_cover.present

C10_RasterFailureKeepsGrid ==
    [][\A s \in Slots :
          (tasks[s].pc = "soil_store"
           /\ tasks[s].etl_status.error = "rasterize failed"
           /\ tasks'[s].pc # "soil_store")
             => /\ terrain'[tasks[s].pid].etl_layers.soil
                      = FailedStatus("rasterize failed")
                /\ terrain'[tasks[s].pid].soil_data.grid
                      = terrain[tasks[s].pid].soil_data.grid]_vars

\* C11: when the provider answers and no row yields a usable polygon, the
\* soil ETL stores etl_layers.soil = failed with error "no soil polygons",
\* stores soil_data with the fetched map_units and no grid, and returns
\* normally (run_all goes on, run_layer returns).
C11_NoPolygonsRecorded ==
    [][\A s \in Slots :
          (tasks[s].pc = "soil_store"
           /\ UsableRows(tasks[s].soil_doc.map_units) = <<>>
           /\ tasks'[s].pc # "soil_store")
             => /\ terrain'[tasks[s].pid].etl_layers.soil
                      = FailedStatus("no soil polygons")
                /\ terrain'[tasks[s].pid].soil_data.present
                /\ terrain'[tasks[s].pid].soil_data.grid = <<>>
                /\ terrain'[tasks[s].pid].soil_data.map_units
                      = tasks[s].soil_doc.map_units
                /\ tasks'[s].pc \in {"returned", "lc_read"}
                /\ tasks'[s].exc = ""]_vars

\* a soil backfill has returned after rows without a usable polygon
C11_Witness ==
    \E s \in InFlight :
        LET t == tasks[s]
        IN  /\ InLog(t, "soil_returned")
            /\ t.pc = "returned"
            /\ t.soil_doc.map_units # <<>>
            /\ UsableRows(t.soil_doc.map_units) = <<>>
            /\ terrain[t.pid].etl_layers.soil.error = "no soil polygons"
            /\ terrain[t.pid].soil_data.map_units = t.soil_doc.map_units

SoilFailed(t) ==
    \/ t.exc \in {"soil provider failed", "name 'asyncio' is not defined"}
    \/ InLog(t, "soil_returned") /\ t.etl_status.status = "failed"

\* C13: in run_all a failure of the soil layer (provider failure, no usable
\* polygons, rasterization error) is contained: once the soil stage is over
\* the land-cover ETL has been invoked for the project, and when the run has
\* ended etl_layers.soil.status = failed is stored.
C13_SoilFailureContained ==
    \A s \in InFlight :
        LET t == tasks[s]
        IN  (/\ t.kind \in {"trigger_etl", "run_country_etl"}
             /\ InLog(t, "soil")
             /\ t.pc \notin SoilStage
             /\ SoilFailed(t))
               => /\ InLog(t, "land_cover")
                  /\ Done(t) => terrain[t.pid].etl_layers.soil.status = "failed"

\* C14: after a trigger_etl run that stored the DEM, whose soil ETL stored
\* status ok and whose land-cover ETL failed and raised, the terrain
\* document reports dem ok, soil ok and land_cover failed.
C14_OnlyIncompleteLayerFailed ==
    \A s \in InFlight :
        LET t == tasks[s]
            layers == terrain[t.pid].etl_layers
        IN  (/\ t.kind = "trigger_etl"
             /\ t.pc = "raised"
             /\ InLog(t, "soil_returned")
             /\ t.etl_status.status = "ok"
             /\ t.wrote = "failed")
               => /\ layers.dem.status = "ok"
                  /\ layers.soil.status = "ok"
                  /\ layers.land_cover.status = "failed"

\* C15: every document of the terrain collection has elevation_data.
C15_NoDocumentWithoutElevation ==
    \A p \in Projects : terrain[p].exists => terrain[p].elevation_data.present

\* C16: whenever the DEM cache holds an entry for a geometry's bounding-box
\* key, _fetch_tiff returns that entry's bytes, makes no request to the
\* elevation provider and leaves the cache as it is; an entry, once written,
\* stays, so every later fetch of the box is a cache hit.
C16_CacheHitSkipsProvider ==
    [][/\ \A s \in Slots :
             (/\ tasks[s].pc = "te_fetch"
              /\ demCache[tasks[s].geom] # "none"
              /\ tasks'[s].pc # "te_fetch")
                => /\ tasks'[s].tiff = demCache[tasks[s].geom]
                   /\ tasks'[s].dem_calls = 0
                   /\ demCache' = demCache
       /\ \A g \in Geometries :
             demCache[g] # "none" => demCache'[g] = demCache[g]]_vars

\* a trigger_etl got its bytes from the cache without asking the provider
C16_Witness ==
    \E s \in InFlight :
        /\ tasks[s].kind = "trigger_etl"
        /\ tasks[s].pc = "te_store"
        /\ tasks[s].tiff = "good"
        /\ tasks[s].dem_calls = 0
        /\ demCache[tasks[s].geom] = "good"

\* C17: the dispatcher matches the country code against the registry
\* whatever its case.  For a registered code run_country_etl calls the
\* module's run_all (which starts with the soil ETL) and run_country_layer
\* calls its run_layer with the given layer; for a code that is not
\* registered, None or empty included, both raise and no layer ETL is invoked.
C17_DispatchByCountry ==
    \A s \in InFlight :
        LET t == tasks[s]
            registered == t.country \in {"USA", "usa"}
            second == IF Len(t.log) >= 2 THEN t.log[2] ELSE "none"
        IN  t.kind \in {"run_country_etl", "run_country_layer"}
               => /\ (registered /\ t.kind = "run_country_etl") => second = "soil"
                  /\ (registered /\ t.kind = "run_country_layer")
                        => CASE t.layer \in {"soil", "Soil"} -> second = "soil"
                             [] t.layer \in {"land_cover", "landcover", "land-cover"}
                                   -> second = "land_cover"
                             [] OTHER -> /\ second = "none"
                                         /\ t.pc = "raised"
                                         /\ t.exc = "Unsupported USA layer ETL"
                  /\ ~registered
                        => /\ t.pc = "raised"
                           /\ t.exc = "No ETL module defined for country"
                           /\ second = "none"

\* a lower-case code was dispatched to run_layer with a land-cover alias
C17_Witness ==
    \E s \in InFlight :
        /\ tasks[s].kind = "run_country_layer"
        /\ tasks[s].country = "usa"
        /\ tasks[s].layer = "land-cover"
        /\ InLog(tasks[s], "land_cover_returned")

\* C18: a loader called while its target collection holds at least one
\* document returns at once: it asks no source, inserts nothing and leaves
\* collections, files and metadata as they were, so the document count after
\* a second load is the count after the first.
C18_LoadedCollectionSkipsLoad ==
    [][(/\ loader.pc = "idle"
        /\ loader'.pc # "idle"
        /\ refdb.count[loader'.name] > 0)
          => /\ loader'.pc = "returned"
             /\ loader'.downloads = 0
             /\ loader'.inserts = 0
             /\ refdb' = refdb]_vars

\* a loader has returned from a collection that was loaded before
C18_Witness ==
    /\ loader.pc = "returned"
    /\ loader.existing > 0
    /\ loader.downloads = 0
    /\ refdb.count[loader.name] = loader.existing
    /\ refdb.datasets[loader.name].exists

\* C19 as stated: whenever no loader is running (each invocation has ended,
\* normally or by an exception), the datasets record of a dataset name
\* exists if and only if its refresh_jobs record exists.
C19_MetadataRecordsTogether ==
    loader.pc \in {"idle", "returned", "raised"}
       => \A n \in DatasetNames :
             refdb.datasets[n].exists <=> refdb.refresh_jobs[n].exists

\* C19: a refresh_jobs record exists only where the datasets record exists;
\* a datasets record has expires_at = downloaded_at + 365 days and a
\* refresh_jobs record next_run_at = now + 365 days with interval_days = 365;
\* after a loader invocation that loaded (did not skip) and returned normally
\* both records of its dataset exist.
C19_MetadataAfterCompleteLoad ==
    /\ \A n \in DatasetNames :
          LET d == refdb.datasets[n]
              j == refdb.refresh_jobs[n]
          IN  /\ j.exists => d.exists
              /\ d.exists => /\ d.downloaded_at \in Times
                             /\ d.expires_at = d.downloaded_at + 365
              /\ j.exists => /\ j.interval_days = 365
                             /\ j.next_run_at - 365 \in Times
    /\ (loader.pc = "returned" /\ loader.existing = 0)
          => /\ refdb.datasets[loader.name].exists
             /\ refdb.refresh_jobs[loader.name].exists

\* a loader has loaded its collection and registered both records
C19_Witness ==
    /\ loader.pc = "returned"
    /\ loader.existing = 0
    /\ refdb.count[loader.name] > 0
    /\ refdb.datasets[loader.name].exists
    /\ refdb.refresh_jobs[loader.name].exists

\* what the claim accepts: a Polygon or MultiPolygon with coordinates
AcceptedGeometry(g) ==
    g.dict /\ g.type \in {"Polygon", "MultiPolygon"} /\ g.coordinates = "ring"

\* C20: validate_geometry raises or returns a bare geometry of type Polygon
\* or MultiPolygon with non-empty coordinates.  A FeatureCollection yields
\* its first feature's geometry (and, when that is a Feature, its geometry),
\* a Feature its geometry, any other value itself; an empty
\* FeatureCollection, another resulting type and empty or missing
\* coordinates are rejected; validating the result again returns it unchanged.
C20_ValidGeometryOrRaise ==
    geo.pc # "idle"
       => LET in == geo.input
              res == geo.result
              out == res.value
          IN  /\ res.raised # "none"
              /\ res.raised = ""
                    => /\ AcceptedGeometry(out)
                       /\ out.geometry = <<>> /\ out.features = <<>>
                       /\ in.type = "FeatureCollection"
                             => /\ in.features # <<>>
                                /\ LET g == in.features[1].geometry[1]
                                   IN  out = IF g.type = "Feature" THEN g.geometry[1]
                                             ELSE g
                       /\ in.type = "Feature" => out = in.geometry[1]
                       /\ in.type \notin {"FeatureCollection", "Feature"} => out = in
              /\ ~in.dict => res.raised # ""
              /\ (in.type = "FeatureCollection" /\ in.features = <<>>) => res.raised # ""
              /\ (in.type \notin {"FeatureCollection", "Feature"} /\ ~AcceptedGeometry(in))
                    => res.raised # ""
              /\ (in.type = "Feature"
                  /\ (in.geometry = <<>> \/ ~AcceptedGeometry(in.geometry[1])))
                    => res.raised # ""
              /\ AcceptedGeometry(in) => res = Returned(in)
              /\ geo.pc = "revalidated" => geo.again = res

\* a FeatureCollection of two features was unwrapped to the first one's
\* polygon, and the polygon validated again
C20_Witness ==
    /\ geo.pc = "revalidated"
    /\ geo.input.type = "FeatureCollection"
    /\ Len(geo.input.features) = 2
    /\ geo.result.raised = ""
    /\ geo.result.value.type = "Polygon"
    /\ geo.again = geo.result

\* C21: in resolve_region a failure of the country lookup does not abort
\* the subdivision lookup, and the other way round: when one lookup fails
\* and the other collection holds a match for the geometry, the call ends
\* with a result that carries that match.
C21_LookupsIndependent ==
    region.pc \in {"returned", "raised"} =>
        /\ (region.exc = "regions lookup failed" /\ region.subdivisions.found)
              => region.result.subdivision = region.subdivisions.code
        /\ (region.exc = "subdivisions lookup failed" /\ region.regions.found)
              => region.result.country = region.regions.code

\* C22: for all geometry bounds, every ratio >= 0 and every minimal buffer
\* >= 0, the box _square_bbox returns is square, has the centre of the
\* bounds, has side exactly max(span * (1 + ratio), span + buffer, buffer)
\* with span the longer side of the bounds, and contains the bounds.
C22_SquareBoxExact ==
    square.pc = "returned" =>
        LET b == square.bounds
            box == square.box
            span == Max2(b[3] - b[1], b[4] - b[2])
            side == Max2(Max2((span * (2 + square.halves)) \div 2,
                              span + square.min_buffer_deg),
                         square.min_buffer_deg)
        IN  /\ box[3] - box[1] = box[4] - box[2]
            /\ box[1] + box[3] = b[1] + b[3]
            /\ box[2] + box[4] = b[2] + b[4]
            /\ box[3] - box[1] = side
            /\ box[1] <= b[1] /\ box[2] <= b[2] /\ box[3] >= b[3] /\ box[4] >= b[4]

\* C23: for every raster of height h and width w, _process_tiff without
\* polygon bounds returns a heightmap with rows = cols = max(h, w).
C23_PaddedToSquare ==
    (tiffs.pc = "returned" /\ tiffs.geom_bounds = NoBounds) =>
        LET h == GridRows(tiffs.tiff.band)
            w == GridCols(tiffs.tiff.band)
            heightmap == tiffs.out.heightmap
        IN  /\ Len(heightmap) = Max2(h, w)
            /\ \A r \in 1..Len(heightmap) : Len(heightmap[r]) = Max2(h, w)

\* a raster that is not square has been processed
C23_Witness ==
    /\ tiffs.pc = "returned"
    /\ tiffs.geom_bounds = NoBounds
    /\ GridRows(tiffs.tiff.band) = 1
    /\ GridCols(tiffs.tiff.band) = 3
    /\ Len(tiffs.out.heightmap) = 3

\* C24: the keys of index_map and of units are exactly the stringified
\* distinct codes of the stored grid, and each code maps to a name the key
\* table holds for it when the table holds one, and to itself otherwise; no
\* code makes the legend fail.
C24_LegendCoversGrid ==
    legend.pc = "built" =>
        LET present == {rc \in (1..Len(legend.grid)) \X (1..Len(legend.grid[1])) :
                           legend.grid[rc[1]][rc[2]] # NoCell}
            codes == {Digits(legend.grid[rc[1]][rc[2]]) : rc \in present}
            docs == {legend.key_docs[i] : i \in 1..Len(legend.key_docs)}
            NamesOf(code) == {d.name : d \in {e \in docs : StrOfCode(e.code) = code}}
        IN  /\ DOMAIN legend.index_map = codes
            /\ DOMAIN legend.units = codes
            /\ \A code \in codes :
                  /\ legend.units[code].name = legend.index_map[code]
                  /\ IF NamesOf(code) = {} THEN legend.index_map[code] = code
                     ELSE legend.index_map[code] \in NamesOf(code)

\* a grid with a code the table names and a code it does not name
C24_Witness ==
    /\ legend.pc = "built"
    /\ legend.grid = <<<<1, 0>>>>
    /\ legend.key_docs = <<KeyDoc(IntCode(1), "Corn")>>
    /\ legend.index_map["1"] = "Corn"
    /\ legend.index_map["0"] = "0"

\* C25: project creation sets the status etl_pending, detaches the pipeline
\* and answers 201 without waiting for it; a pipeline failure never reaches
\* the request; once the detached pipeline has ended the status is ready if
\* trigger_etl returned and etl_failed with etl_error if it raised, so a
\* created project whose pipeline has ended is no longer etl_pending.
C25_StatusFollowsPipeline ==
    /\ app.last.route = "create" => app.last.status = 201
    /\ \A p \in Projects :
          LET project == app.projects[p]
          IN  project.exists =>
                 /\ app.run[p] = "running" => project.status = "etl_pending"
                 /\ app.run[p] = "returned" =>
                       project.status = "ready" /\ project.etl_error = ""
                 /\ app.run[p] = "raised" =>
                       project.status = "etl_failed" /\ project.etl_error # ""

\* the request was answered 201 while its pipeline was in flight, and that
\* pipeline has since raised
C25_Witness ==
    /\ app.last.route = "create"
    /\ app.last.status = 201
    /\ \E p \in Projects :
          /\ app.run[p] = "raised"
          /\ app.projects[p].status = "etl_failed"
          /\ app.projects[p].etl_error = "dem fetch failed"

\* C26: a land-cover ETL never changes etl_layers.soil or etl_layers.dem,
\* and a soil ETL never changes etl_layers.land_cover or etl_layers.dem,
\* also when a soil backfill and a land-cover ETL of one project interleave.
C26_LayerWritesOwnStatus ==
    [][\A s \in Slots :
          LET t == tasks[s]
              before == terrain[t.pid].etl_layers
              after == terrain'[t.pid].etl_layers
          IN  /\ (t.pc \in {"lc_forced", "lc_fetch"} /\ tasks'[s] # t)
                    => after.soil = before.soil /\ after.dem = before.dem
              /\ (t.pc = "soil_store" /\ tasks'[s] # t)
                    => after.land_cover = before.land_cover /\ after.dem = before.dem]_vars

\* C27: once a project is deleted and every pipeline or backfill task of it
\* has ended, no terrain document of that project exists.
C27_DeletedStaysDeleted ==
    \A p \in Projects :
        (/\ app.projects[p].created
         /\ ~app.projects[p].exists
         /\ \A s \in Slots : tasks[s].pid = p => Done(tasks[s]))
           => ~terrain[p].exists

\* C28: concurrent fetches of one cache key each return complete raster
\* bytes, whether from the provider or from the cache; no cache file is ever
\* partial; and once a fetch of a key has returned, exactly one cache entry
\* exists for the key.
C28_ConcurrentFetchesTolerated ==
    /\ \A f \in fetches.files : f.content \in ProviderBytes
    /\ \A w \in Fetchers :
          fetches.fetcher[w].pc = "returned" => fetches.fetcher[w].result \in ProviderBytes
    /\ \A k \in BboxKeys :
          /\ Cardinality(Glob(fetches.files, k)) <= 1
          /\ (\E w \in Fetchers : /\ fetches.fetcher[w].pc = "returned"
                                  /\ fetches.fetcher[w].bbox_key = k)
                => Cardinality(Glob(fetches.files, k)) = 1

\* two fetches of one key, for two projects, have both asked the provider
\* and returned
C28_Witness ==
    \E v, w \in Fetchers :
        /\ v # w
        /\ fetches.fetcher[v].pc = "returned" /\ fetches.fetcher[w].pc = "returned"
        /\ fetches.fetcher[v].bbox_key = fetches.fetcher[w].bbox_key
        /\ fetches.fetcher[v].project_id # fetches.fetcher[w].project_id
        /\ fetches.fetcher[v].from = "provider" /\ fetches.fetcher[w].from = "provider"
        /\ Cardinality(Glob(fetches.files, fetches.fetcher[v].bbox_key)) = 1

\* C29: a token a login returned opens the protected routes until a logout
\* with it; from then on a request with it is answered 401, and the sessions
\* of the other logins stay.
C29_LogoutEndsSession ==
    /\ {x.token : x \in auth.sessions} = (1..auth.issued) \ auth.ended
    /\ auth.last.route = "projects" =>
          /\ auth.last.token \in auth.ended => auth.last.status = 401
          /\ (/\ IsBearer(auth.last.scheme)
              /\ auth.last.token \in (1..auth.issued) \ auth.ended)
                => auth.last.status = 200

\* a request with a token after the logout with it, while another session
\* is open
C29_Witness ==
    /\ auth.last.route = "projects"
    /\ IsBearer(auth.last.scheme)
    /\ auth.last.token \in auth.ended
    /\ auth.last.status = 401
    /\ auth.sessions # {}

\* C30: a grid request with refresh for land_cover, on a terrain document
\* that holds dem and soil and no land cover, is answered 200 with the
\* land-cover layer; and a stored land-cover layer is returned on request.
C30_GridServesLandCover ==
    [][\A p \in Projects :
          (/\ app'.last # app.last
           /\ app'.last.route = "grid"
           /\ app'.last.layer = "land_cover"
           /\ terrain[p].elevation_data.present
           /\ terrain[p].soil_data.present
           /\ app'.last.refresh \/ terrain[p].land_cover.present)
             => /\ app'.last.status = 200
                /\ "land_cover" \in app'.last.layers]_vars


\* C31: a soil ETL whose provider fails on every request makes two requests
\* and no third one, and what it raises to its caller is the failure of the
\* second request; once it has left the request loop it has made two attempts
\* and carries the provider's failure.
C31_SecondFailureRaised ==
    \A s \in InFlight :
        LET t == tasks[s]
        IN  (t.plan = <<"fail", "fail">> /\ InLog(t, "soil") /\ t.pc # "soil_post")
               => /\ t.attempts = 2
                  /\ t.exc = "soil provider failed"


\* C32: a fetch whose provider request fails (the request raises, or the
\* response carries an error status) leaves the cache directory as it was,
\* and a fetch that finds no cache file for its box key asks the provider
\* and returns no cached bytes.
C32_CacheWrittenOnSuccessOnly ==
    [][\A w \in Fetchers :
          LET t == fetches.fetcher[w]
              u == fetches'.fetcher[w]
          IN  /\ (t.pc = "requesting" /\ u.pc = "raised")
                    => /\ fetches'.files = fetches.files
                       /\ u.calls = 1
              /\ (t.pc = "idle" /\ u.pc # "idle"
                    /\ Glob(fetches.files, u.bbox_key) = {})
                    => /\ u.pc = "requesting"
                       /\ u.from # "cache"]_vars

\* a fetch has failed, the cache holds no file for its box key, and another
\* fetch for the same key is asking the provider
C32_Witness ==
    \E w \in Fetchers, v \in Fetchers :
        /\ w # v
        /\ fetches.fetcher[w].pc = "raised"
        /\ fetches.fetcher[v].pc = "requesting"
        /\ fetches.fetcher[v].bbox_key = fetches.fetcher[w].bbox_key
        /\ Glob(fetches.files, fetches.fetcher[w].bbox_key) = {}
        /\ fetches.files # {}

\* C33: when _process_tiff pads an h x w raster with h # w (no polygon
\* bounds), with side = max(h, w), r0 = floor((side - h) / 2) and
\* c0 = floor((side - w) / 2): every original cell (r, c) is found unchanged
\* at (r + r0, c + c0), every other cell is 0, the new transform maps the
\* cell (c + c0, r + r0) to the coordinate the original transform gave the
\* cell (c, r), and the bounds are those of the new transform and shape.
C33_PaddingKeepsCellsAnchored ==
    (tiffs.pc = "returned" /\ tiffs.geom_bounds = NoBounds
        /\ GridRows(tiffs.tiff.band) # GridCols(tiffs.tiff.band)) =>
        LET original == ZeroNoData(tiffs.tiff.band, tiffs.tiff.nodata)
            h == GridRows(original)
            w == GridCols(original)
            side == Max2(h, w)
            r0 == (side - h) \div 2
            c0 == (side - w) \div 2
            out == tiffs.out
        IN  /\ \A r \in 1..h, c \in 1..w : out.heightmap[r + r0][c + c0] = original[r][c]
            /\ \A r \in 1..side, c \in 1..side :
                  (r - r0 \notin 1..h \/ c - c0 \notin 1..w) => out.heightmap[r][c] = 0
            /\ \A r \in 0..h, c \in 0..w :
                  Apply(out.transform, c + c0, r + r0) = Apply(tiffs.tiff.transform, c, r)
            /\ out.bounds.left = Apply(out.transform, 0, 0)[1]
            /\ out.bounds.top = Apply(out.transform, 0, 0)[2]
            /\ out.bounds.right = Apply(out.transform, side, side)[1]
            /\ out.bounds.bottom = Apply(out.transform, side, side)[2]

\* a 1 x 3 raster with an origin away from zero has been padded to 3 x 3:
\* its row lies in the middle, and the transform has moved up by one cell
C33_Witness ==
    /\ tiffs.pc = "returned"
    /\ tiffs.geom_bounds = NoBounds
    /\ GridRows(tiffs.tiff.band) = 1
    /\ GridCols(tiffs.tiff.band) = 3
    /\ tiffs.tiff.transform = <<2, 0, 3, 0, 0 - 2, 5>>
    /\ tiffs.out.heightmap[2][3] = 13
    /\ tiffs.out.heightmap[1][3] = 0
    /\ tiffs.out.transform = <<2, 0, 3, 0, 0 - 2, 7>>

\* C34: for every polygon bounds and every padded grid of rows x cols, the
\* crop window of _process_tiff lies inside the grid, 0 <= r_min <= r_max <=
\* rows and 0 <= c_min <= c_max <= cols, and the returned heightmap is made
\* of exactly the cells of the padded grid in that window (the bounds widened
\* by two cells), also when the bounds lie partly or wholly outside the
\* raster.
C34_CropWindowClamped ==
    (tiffs.pc = "returned" /\ tiffs.geom_bounds # NoBounds) =>
        LET padded == Padded(tiffs.tiff)
            w == CropWindow(padded.transform, padded.heightmap, tiffs.geom_bounds)
            rows == GridRows(padded.heightmap)
            cols == GridCols(padded.heightmap)
        IN  /\ 0 <= w.r_min /\ w.r_min <= w.r_max /\ w.r_max <= rows
            /\ 0 <= w.c_min /\ w.c_min <= w.c_max /\ w.c_max <= cols
            /\ tiffs.out.heightmap =
                  [r \in 1..(w.r_max - w.r_min) |->
                      [c \in 1..(w.c_max - w.c_min) |->
                          padded.heightmap[w.r_min + r][w.c_min + c]]]

\* C35: in every result of _process_tiff, min_elevation and max_elevation
\* are the least and the greatest cell of the returned heightmap, and bounds
\* are the bounds of the returned transform over the returned grid's shape.
C35_StatsOfReturnedGrid ==
    tiffs.pc = "returned" =>
        LET out == tiffs.out
            cells == Cells(out.heightmap)
        IN  /\ out.min_elevation \in cells
            /\ out.max_elevation \in cells
            /\ \A v \in cells : out.min_elevation <= v /\ v <= out.max_elevation
            /\ GridRows(out.heightmap) > 0 =>
                  out.bounds = array_bounds(GridRows(out.heightmap),
                                            GridCols(out.heightmap), out.transform)

\* C38: the crop of _process_tiff is all-or-nothing: when a step of the crop
\* raises (np.min on an empty window), the heightmap, transform, bounds,
\* min_elevation and max_elevation returned are all those of the padded,
\* uncropped grid.
C38_CropAllOrNothing ==
    (tiffs.pc = "returned" /\ tiffs.geom_bounds # NoBounds) =>
        LET padded == Padded(tiffs.tiff)
            w == CropWindow(padded.transform, padded.heightmap, tiffs.geom_bounds)
            shape == SliceShape(padded.heightmap, w.r_min, w.r_max, w.c_min, w.c_max)
        IN  (shape[1] = 0 \/ shape[2] = 0) => tiffs.out = padded

C37_SoilIdsByFirstAppearance ==
    \A s \in InFlight :
        LET t == tasks[s]
            doc == t.soil_doc
            table == doc.map_units
            elev == terrain[t.pid].elevation_data
            usable == {i \in 1..Len(table) :
                          Strip(table[i].mukey) # "" /\ table[i].wkt \in ValidWkt}
            mukeys == {Strip(table[i].mukey) : i \in usable}
            k == Cardinality(mukeys)
            First(mukey) ==
                CHOOSE i \in usable :
                    /\ Strip(table[i].mukey) = mukey
                    /\ \A j \in usable : Strip(table[j].mukey) = mukey => i <= j
        IN  (t.pc = "soil_store" /\ t.etl_status.status = "ok") =>
               /\ k >= 1
               /\ Len(doc.index_map) = k
               /\ {doc.index_map[i] : i \in 1..k} = mukeys
               /\ \A i \in 1..k, j \in 1..k :
                     i < j => First(doc.index_map[i]) < First(doc.index_map[j])
               /\ doc.units = mukeys
               /\ GridRows(doc.grid) = GridRows(elev.heightmap)
               /\ \A r \in 1..GridRows(doc.grid), c \in 1..GridCols(doc.grid) :
                     LET over == {i \in usable : Covers(table[i].wkt, r, c)}
                     IN  /\ doc.grid[r][c] \in 0..k
                         /\ doc.grid[r][c] = 0 <=> over = {}
                         /\ doc.grid[r][c] # 0 =>
                               \E i \in over :
                                  doc.index_map[doc.grid[r][c]] = Strip(table[i].mukey)
               /\ doc.bounds = elev.bounds
               /\ doc.transform = elev.transform

\* a successful soil ETL over three rows with polygons, two of them of one
\* map unit: two ids, and a cell that no polygon covers
C37_Witness ==
    \E s \in InFlight :
        /\ tasks[s].pc = "soil_store"
        /\ tasks[s].etl_status.status = "ok"
        /\ Len(tasks[s].soil_doc.map_units) = 3
        /\ tasks[s].soil_doc.index_map = <<"m2", "m1">>
        /\ tasks[s].soil_doc.grid[1][1] = 1
        /\ tasks[s].soil_doc.grid[2][2] = 0

\* C39: in every state of the terrain document of a project, under any
\* interleaving of its pipeline run and its soil backfills, a layer status
\* ok means that the layer's data is stored: dem ok with an elevation_data
\* that has a heightmap, soil ok with a soil_data whose grid is not null,
\* land_cover ok with a land_cover that has a grid.
C39_OkMeansStored ==
    \A p \in Projects :
        LET doc == terrain[p]
        IN  app.projects[p].exists =>
               /\ doc.etl_layers.dem.status = "ok"
                     => doc.elevation_data.present /\ doc.elevation_data.heightmap # <<>>
               /\ doc.etl_layers.soil.status = "ok"
                     => doc.soil_data.present /\ doc.soil_data.grid # <<>>
               /\ doc.etl_layers.land_cover.status = "ok"
                     => doc.land_cover.present /\ doc.land_cover.grid # <<>>

\* C40: with the pipelines and backfills of several projects interleaved,
\* every step that changes a terrain document is a step of an invocation
\* made for that document's project: the documents of all other projects
\* are as they were.
C40_WritesOwnDocumentOnly ==
    [][\A q \in Tenants :
          terrain'[q] # terrain[q]
             => \E s \in Slots :
                   /\ TenantOf(s) = q
                   /\ tasks[s].pid = q
                   /\ tasks'[s] # tasks[s]
                   /\ \A o \in Slots \ {s} : tasks'[o] = tasks[o]]_vars

\* both projects have a terrain document with all three layers while an
\* invocation of each is still in flight
C40_Witness ==
    /\ \A q \in Tenants :
          /\ terrain[q].elevation_data.present
          /\ terrain[q].soil_data.present
          /\ terrain[q].land_cover.present
    /\ \A s \in Slots : tasks[s].kind = "fetch_soil_data" /\ tasks[s].pc = "soil_store"
    /\ terrain["p1"].elevation_data # terrain["p2"].elevation_data

=============================================================================
